---- MODULE Spec2Model ----
(***************************************************************************)
(* Model of the Telegram download relay (src/unnamed/part_002, the latest  *)
(* version of server.js): the table of pending requests, the handler of    *)
(* bot events, the three bot-facing HTTP handlers with their deadline      *)
(* timers, and the connection manager.                                     *)
(*                                                                         *)
(* Time is Date.now() in milliseconds.  The clock advances by single       *)
(* milliseconds (up to a bound) or jumps to the next timer deadline; a     *)
(* timer that is due runs before the clock moves on.                       *)
(***************************************************************************)
EXTENDS Integers, Sequences, FiniteSets, TLC

VARIABLES
    now,                 \* Date.now()
    reqs,                \* the HTTP calls made so far, in order of arrival
    pendingDownloads,    \* Map requestId -> resolve, in insertion order
    downloadProgress,    \* Map requestId -> ProgressRecord
    lastFormatMessage,   \* the stored menu message, or NoMessage
    receivedMediaTypes,  \* Map requestId -> 'video' | 'audio' | 'image'
    rmtTimers,           \* deadlines of the 5 s timers that clear receivedMediaTypes
    files,               \* the downloads directory: file name -> [status, mtime]
    invs,                \* invocations of handleIncomingMessage in progress
    nEvents,             \* number of bot events delivered so far
    client,              \* the global TelegramClient reference (0 = none)
    clients,             \* the TelegramClient objects created so far, by identity
    isConnected,
    isReconnecting,
    reconnectTimeout,    \* the reconnect timer: "none" | "armed" | "fired"
    inits,               \* invocations of initTelegram awaiting client.start
    rseq,                \* reconnect timer callbacks in progress
    nSeqs,               \* number of reconnect timer callbacks run so far
    keepAlives,          \* number of liveness-probe interval timers
    probes,              \* number of liveness probes awaiting client.getMe
    dupSeen,             \* an AUTH_KEY_DUPLICATED error has been raised
    nFaults,             \* number of connection faults so far
    purgeTimers,         \* the 60 s timers of GET /api/youtube/progress/:id
    polled,              \* the answers of GET /api/youtube/progress/:id so far
    nSweeps,             \* runs of the hourly sweep of the downloads directory
    lastCaught,          \* events delivered when the handler's catch last ran (0: never)
    parseIn,             \* a text given to parseYouTubeFormats
    parseOut,            \* what parseYouTubeFormats returned for it
    fileReq,             \* a request to GET /downloads/:filename
    fileResp,            \* the answer to it
    rateLimitMap,        \* client IP -> [count, resetTime] of rateLimitMiddleware
    passed,              \* per IP, the times of its requests passed to next() in the last window
    rateResp,            \* what rateLimitMiddleware did with the last request
    nElapses,            \* how often time was advanced between requests
    teraboxPendingDownloads, \* three-bot version: the map of POST /api/terabox
    botReqs              \* three-bot version: the requests, each addressed to one bot

corrVars == <<now, reqs, pendingDownloads, downloadProgress,
              lastFormatMessage, receivedMediaTypes, rmtTimers, files, invs, nEvents>>
connVars == <<client, clients, isConnected, isReconnecting,
              reconnectTimeout, inits, rseq, nSeqs, keepAlives, probes, dupSeen, nFaults>>
pureVars == <<parseIn, parseOut, fileReq, fileResp>>
rateVars == <<rateLimitMap, passed, rateResp, nElapses>>
botVars == <<teraboxPendingDownloads, botReqs>>
webVars == <<purgeTimers, polled, nSweeps, lastCaught, pureVars, rateVars, botVars>>
vars == <<now, reqs, pendingDownloads, downloadProgress,
          lastFormatMessage, receivedMediaTypes, rmtTimers, files, invs, nEvents,
          client, clients, isConnected, isReconnecting,
          reconnectTimeout, inits, rseq, nSeqs, keepAlives, probes, dupSeen, nFaults,
          purgeTimers, polled, nSweeps, lastCaught, parseIn, parseOut, fileReq, fileResp,
          rateLimitMap, passed, rateResp, nElapses,
          teraboxPendingDownloads, botReqs>>

(***************************************************************************)
(* Bounds of the model.                                                    *)
(***************************************************************************)
MaxReq == 2          \* HTTP calls made in one behaviour
MaxEvents == 2       \* bot events delivered in one behaviour
MaxInv == 2          \* invocations of handleIncomingMessage in progress at once
MaxMsTicks == 1      \* the clock advances by single milliseconds up to this time
MaxFaults == 2       \* connection faults (errors, failed starts, failed probes)
MaxProbes == 1       \* liveness probes awaiting their answer at once
MaxClients == 3      \* TelegramClient objects created in one behaviour
MaxPolls == 2        \* calls of GET /api/youtube/progress/:id in one behaviour
MaxPolledCalls == 1  \* calls of POST /api/youtube/download in SpecProgress
MaxSegments == 3     \* pieces of a text given to parseYouTubeFormats
MaxSweeps == 2       \* runs of the hourly sweep in one behaviour

(***************************************************************************)
(* Program constants.                                                      *)
(***************************************************************************)
DOWNLOAD_TIMEOUT == 120000
FORMAT_TIMEOUT == 30000
RMT_CLEANUP_DELAY == 5000
PROGRESS_PURGE_DELAY == 60000
SWEEP_INTERVAL == 3600000
RETENTION == 3600000

(***************************************************************************)
(* Values.                                                                 *)
(***************************************************************************)
Undefined == <<>>
NoMessage == [id |-> 0, buttons |-> {}]
NoFile == <<>>
Pending == [type |-> "pending"]          \* a promise not yet settled
NullResult == [type |-> "null"]          \* resolve(null)
NoResponse == [status |-> 0]

botUsername == <<"@", "Ebenozdownbot">>

\* botUsername.replace('@', ''): the first '@' removed
StripAt(name) ==
    IF \E i \in 1..Len(name) : name[i] = "@"
    THEN LET i == CHOOSE k \in 1..Len(name) :
                      name[k] = "@" /\ \A j \in 1..(k - 1) : name[j] # "@"
         IN  SubSeq(name, 1, i - 1) \o SubSeq(name, i + 1, Len(name))
    ELSE name

(***************************************************************************)
(* Message texts are sequences of tokens.                                  *)
(***************************************************************************)
Tok(k, l, n) == [k |-> k, l |-> l, n |-> n]
TCam == Tok("cam", "", 0)               \* the camera emoji
TClap == Tok("clap", "", 0)             \* the clapper emoji
TDownloading == Tok("dl", "", 0)        \* the "Downloading" marker
TBar == Tok("bar", "", 0)               \* the progress-bar block
TPct(n) == Tok("pct", "", n)            \* "n%"
TLabel(l) == Tok("label", l, 0)         \* a quality label as written: "720p", "mp3"
TColon == Tok("colon", "", 0)           \* ":"
TSpace == Tok("sp", "", 0)              \* white space
TNum(n) == Tok("num", "", n)            \* a run of digits
TUnit(u) == Tok("unit", u, 0)           \* "MB", "mb", "GB"
TDot == Tok("dot", "", 0)               \* "."
TSize(l, n) == <<TLabel(l), TColon, TSpace, TNum(n), TUnit("MB")>>    \* "l: nMB"
TWord == Tok("word", "", 0)

QualityLabels == <<"1080p", "720p", "480p", "360p", "240p", "144p", "MP3">>

HasTok(text, k) == \E i \in 1..Len(text) : text[i].k = k
HasLabel(text, l) == \E i \in 1..Len(text) : text[i].k = "label" /\ text[i].l = l

\* the i flag of the patterns: letters compare without regard to case
FoldCase(w) ==
    CASE w = "mp3" -> "MP3"
      [] w = "720P" -> "720p"
      [] w = "mb" -> "MB"
      [] OTHER -> w

(***************************************************************************)
(* MIME types: mimeType.includes(s) by the table of the substrings the     *)
(* code probes for.                                                        *)
(***************************************************************************)
MimeParts(m) ==
    CASE m = "video/mp4" -> {"video", "mp4", "video/mp4"}
      [] m = "video/webm" -> {"video", "webm", "video/webm"}
      [] m = "video/mpeg" -> {"video", "mpeg"}
      [] m = "audio/mpeg" -> {"audio", "mpeg", "audio/mpeg"}
      [] m = "audio/ogg" -> {"audio", "ogg", "audio/ogg"}
      [] m = "image/png" -> {"image", "image/", "image/png"}
      [] m = "application/mp4" -> {"mp4"}
      [] OTHER -> {}
Includes(m, s) == s \in MimeParts(m)

Msg(sender, text, media, attrs, mime, buttons) ==
    [sender |-> sender, text |-> text, media |-> media, attrs |-> attrs,
     mime |-> mime, buttons |-> buttons]

Bot == <<"Ebenozdownbot">>
MenuMsg == Msg(Bot, <<TCam>> \o TSize("720p", 50) \o TSize("MP3", 8), "none", {}, "",
               {"720p", "MP3"})
ProgressMsg == Msg(Bot, <<TDownloading, TPct(45)>>, "none", {}, "", {})
PhotoMsg == Msg(Bot, <<>>, "photo", {}, "", {})
VideoMsg == Msg(Bot, <<>>, "doc", {"video"}, "video/mp4", {})
AudioMsg == Msg(Bot, <<>>, "doc", {"audio"}, "audio/mpeg", {})
ZipMsg == Msg(Bot, <<>>, "doc", {}, "application/zip", {})
\* a video from an account whose username differs from the bot's in case only
StrangerMsg == Msg(<<"ebenozdownbot">>, <<>>, "doc", {"video"}, "video/mp4", {})

Messages == {MenuMsg, ProgressMsg, PhotoMsg, VideoMsg, AudioMsg, ZipMsg, StrangerMsg}

(***************************************************************************)
(* Pure helpers.                                                           *)
(***************************************************************************)
SetMin(S) == CHOOSE x \in S : \A y \in S : x <= y

\* Map.has / Map.set / Map.delete on pendingDownloads (a Map keeps insertion
\* order; set on an existing key replaces the value in place)
PendingKeys(pd) == {pd[i].key : i \in 1..Len(pd)}
PendingOwners(pd) == {pd[i].owner : i \in 1..Len(pd)}
PendingHas(pd, key) == key \in PendingKeys(pd)
PendingSet(pd, key, owner) ==
    IF PendingHas(pd, key)
    THEN [i \in 1..Len(pd) |->
             IF pd[i].key = key THEN [key |-> key, owner |-> owner] ELSE pd[i]]
    ELSE Append(pd, [key |-> key, owner |-> owner])
PendingDelete(pd, key) == SelectSeq(pd, LAMBDA e : e.key # key)

\* Map.set / Map.has on downloadProgress and receivedMediaTypes
MapSet(f, key, v) == [k \in (DOMAIN f) \cup {key} |-> IF k = key THEN v ELSE f[k]]
MapDelete(f, key) == [k \in (DOMAIN f) \ {key} |-> f[k]]

Status(s, n, f) == [s |-> s, n |-> n, f |-> f]

\* the record POST /api/youtube/download creates
NewProgress(t) ==
    [progress |-> 5, status |-> Status("Requesting video from bot...", 0, ""),
     complete |-> FALSE, success |-> FALSE, startTime |-> t,
     videoUrl |-> Undefined, fileName |-> NoFile, mediaType |-> "", error |-> ""]

Url(fileName) == <<"/downloads/">> \o fileName

IsDescriptor(v) == v.type \in {"video", "audio", "image"}
Truthy(v) == v # NullResult

\* what the HTTP handler answers once its promise is settled with v
ResponseOf(kind, v, sent) ==
    CASE kind = "download" ->
            IF Truthy(v)
            THEN [status |-> 200,
                  videoUrl |-> IF IsDescriptor(v) THEN v.url ELSE Undefined,
                  fileName |-> IF IsDescriptor(v) THEN v.fileName ELSE NoFile,
                  mediaType |-> IF IsDescriptor(v) THEN v.mediaType ELSE "video"]
            ELSE [status |-> 408]
      [] kind = "formats" ->
            IF Truthy(v) /\ v.type = "formats"
            THEN [status |-> 200, formats |-> v.formats]
            ELSE [status |-> 408]
      [] OTHER -> sent

\* resolve(v) on the promise of one request: only the first call settles it
ResolveOne(r, v) ==
    IF r.ncalls = 0
    THEN [r EXCEPT !.ncalls = 1, !.value = v, !.pc = "done",
                   !.resp = ResponseOf(r.kind, v, r.resp)]
    ELSE [r EXCEPT !.ncalls = @ + 1]

Resolve(rs, owners, v) ==
    [r \in DOMAIN rs |-> IF r \in owners THEN ResolveOne(rs[r], v) ELSE rs[r]]

\* parseYouTubeFormats.  A pattern /label\s*:\s*(\d+MB)/i matches at p if the
\* label stands at p and white space, a colon, white space, digits and MB
\* follow; text.match takes the leftmost match and captures digits and unit
RECURSIVE SkipSpaces(_, _)
SkipSpaces(text, p) ==
    IF p <= Len(text) /\ text[p].k = "sp" THEN SkipSpaces(text, p + 1) ELSE p

AfterColon(text, p) == SkipSpaces(text, SkipSpaces(text, p + 1) + 1)

MatchAt(text, p, l) ==
    LET a == SkipSpaces(text, p + 1)
        b == AfterColon(text, p)
    IN  /\ text[p].k = "label" /\ FoldCase(text[p].l) = FoldCase(l)
        /\ a <= Len(text) /\ text[a].k = "colon"
        /\ b + 1 <= Len(text)
        /\ text[b].k = "num"
        /\ text[b + 1].k = "unit" /\ FoldCase(text[b + 1].l) = "MB"

Matches(text, l) == {p \in 1..Len(text) : MatchAt(text, p, l)}

\* match[1]: the digits and the unit as written
FirstSize(text, l) ==
    LET b == AfterColon(text, SetMin(Matches(text, l)))
    IN  <<text[b].n, text[b + 1].l>>

\* a parser that gives every label of the text an entry, with a placeholder
\* size where the pattern does not match
RECURSIVE ParseFromPlaceholder(_, _)
ParseFromPlaceholder(text, i) ==
    IF i > Len(QualityLabels) THEN <<>>
    ELSE LET l == QualityLabels[i]
         IN  (IF Matches(text, l) # {}
              THEN <<[quality |-> l, size |-> FirstSize(text, l)]>>
              ELSE IF HasLabel(text, l)
                   THEN <<[quality |-> l, size |-> <<0, "MB">>]>>
                   ELSE <<>>) \o ParseFromPlaceholder(text, i + 1)

RECURSIVE ParseFrom(_, _)
ParseFrom(text, i) ==
    IF i > Len(QualityLabels) THEN <<>>
    ELSE LET l == QualityLabels[i]
         IN  (IF Matches(text, l) # {}
              THEN <<[quality |-> l, size |-> FirstSize(text, l)]>>
              ELSE <<>>) \o ParseFrom(text, i + 1)
parseYouTubeFormats(text) == ParseFrom(text, 1)

(***************************************************************************)
(* Classification of a message (handleIncomingMessage).                    *)
(***************************************************************************)
\* a handler without the sender filter
FromAnyone(m) == TRUE

FromBot(m) == m.sender = StripAt(botUsername)
HasText(m) == Len(m.text) > 0
IsFormatList(text) ==
    /\ HasTok(text, "cam") \/ HasTok(text, "clap")
    /\ \E i \in 1..Len(QualityLabels) : HasLabel(text, QualityLabels[i])
IsProgressText(text) == HasTok(text, "dl") \/ HasTok(text, "bar")
HasPercent(text) == HasTok(text, "pct")
FirstPercent(text) ==
    LET i == CHOOSE k \in 1..Len(text) :
                 text[k].k = "pct" /\ \A j \in 1..(k - 1) : text[j].k # "pct"
    IN  text[i].n

IsMenu(m) == HasText(m) /\ IsFormatList(m.text)
IsProgress(m) == HasText(m) /\ ~IsFormatList(m.text) /\ IsProgressText(m.text)

WaitingForMedia ==
    \/ Len(pendingDownloads) > 0
    \/ \E k \in DOMAIN downloadProgress : ~downloadProgress[k].complete

IsVideo(m) == "video" \in m.attrs \/ Includes(m.mime, "video")
IsAudio(m) ==
    \/ "audio" \in m.attrs
    \/ \E s \in {"audio", "mpeg", "mp3", "ogg", "wav", "m4a"} : Includes(m.mime, s)
IsImage(m) == Includes(m.mime, "image/") \/ "imagesize" \in m.attrs

AlreadyReceivedBetter ==
    \E k \in DOMAIN receivedMediaTypes : receivedMediaTypes[k] \in {"video", "image"}

\* the audio-skip test of the priority rule
AudioSkipped(m) ==
    /\ IsAudio(m) /\ ~IsVideo(m) /\ ~IsImage(m)
    /\ AlreadyReceivedBetter \/ Len(pendingDownloads) > 0

\* "Infer type if unknown": each branch assigns to a const and so throws
InferenceAssigns(m) ==
    \E s \in {"video", "mp4", "webm", "audio", "mpeg", "image"} : Includes(m.mime, s)

MediaTypeOf(m) == IF IsVideo(m) THEN "VIDEO" ELSE IF IsAudio(m) THEN "AUDIO" ELSE "IMAGE"
Lower(t) == CASE t = "VIDEO" -> "video" [] t = "AUDIO" -> "audio" [] OTHER -> "image"
DescriptorType(m) == IF IsAudio(m) THEN "audio" ELSE IF IsImage(m) THEN "image" ELSE "video"

FilePrefix(m) ==
    IF IsVideo(m) THEN "video" ELSE IF IsAudio(m) THEN "audio"
    ELSE IF IsImage(m) THEN "image" ELSE "media"
FileExt(m) ==
    IF IsVideo(m)
    THEN CASE Includes(m.mime, "video/webm") -> ".webm"
           [] Includes(m.mime, "video/mp4") -> ".mp4"
           [] Includes(m.mime, "video/quicktime") -> ".mov"
           [] Includes(m.mime, "video/x-matroska") -> ".mkv"
           [] OTHER -> ".mp4"
    ELSE IF IsAudio(m)
    THEN CASE Includes(m.mime, "audio/mpeg") \/ Includes(m.mime, "mp3") -> ".mp3"
           [] Includes(m.mime, "audio/ogg") -> ".ogg"
           [] Includes(m.mime, "audio/wav") -> ".wav"
           [] Includes(m.mime, "audio/m4a") \/ Includes(m.mime, "audio/mp4") -> ".m4a"
           [] Includes(m.mime, "audio/aac") -> ".aac"
           [] Includes(m.mime, "audio/flac") -> ".flac"
           [] Includes(m.mime, "audio/opus") -> ".opus"
           [] OTHER -> ".mp3"
    ELSE IF IsImage(m)
    THEN CASE Includes(m.mime, "image/jpeg") \/ Includes(m.mime, "image/jpg") -> ".jpg"
           [] Includes(m.mime, "image/png") -> ".png"
           [] Includes(m.mime, "image/gif") -> ".gif"
           [] Includes(m.mime, "image/webp") -> ".webp"
           [] Includes(m.mime, "image/bmp") -> ".bmp"
           [] Includes(m.mime, "image/svg") -> ".svg"
           [] OTHER -> ".jpg"
    ELSE ".jpg"

\* `${filePrefix}_${Date.now()}${fileExt}`
DocFileName(m, t) == <<FilePrefix(m), t, FileExt(m)>>
PhotoFileName(t) == <<"image", t, ".jpg">>

DocDescriptor(m, fileName, t) ==
    [type |-> DescriptorType(m), mediaType |-> Lower(MediaTypeOf(m)),
     fileName |-> fileName, url |-> Url(fileName), timestamp |-> t]
PhotoDescriptor(fileName, t) ==
    [type |-> "image", mediaType |-> "image",
     fileName |-> fileName, url |-> Url(fileName), timestamp |-> t]

\* a write that is reported as done while the file is still incomplete
WriteFileUnflushed(fs, fileName, t) ==
    MapSet(fs, fileName, [status |-> "partial", mtime |-> t])

\* fs.writeFileSync(filePath, buffer, {flag: 'w'}) that succeeds
WriteFile(fs, fileName, t) == MapSet(fs, fileName, [status |-> "complete", mtime |-> t])
\* fs.writeFileSync that throws after the file was opened (truncated, partly written)
WritePartial(fs, fileName, t) == MapSet(fs, fileName, [status |-> "partial", mtime |-> t])
\* if (fs.existsSync(filePath)) fs.unlinkSync(filePath)
Unlink(fs, fileName) == MapDelete(fs, fileName)


(***************************************************************************)
(* The state after the module has been loaded: nothing pending, no client. *)
(***************************************************************************)
NotParsed == [done |-> FALSE, formats |-> <<>>]

InitServer ==
    /\ now = 0
    /\ reqs = <<>>
    /\ pendingDownloads = <<>>
    /\ downloadProgress = <<>>
    /\ lastFormatMessage = NoMessage
    /\ receivedMediaTypes = <<>>
    /\ rmtTimers = {}
    /\ files = <<>>
    /\ invs = {}
    /\ nEvents = 0
    /\ client = 0
    /\ clients = <<>>
    /\ isConnected = FALSE
    /\ isReconnecting = FALSE
    /\ reconnectTimeout = "none"
    /\ inits = {}
    /\ rseq = {}
    /\ nSeqs = 0
    /\ keepAlives = 0
    /\ probes = 0
    /\ dupSeen = FALSE
    /\ nFaults = 0
    /\ purgeTimers = {}
    /\ polled = <<>>
    /\ nSweeps = 0
    /\ lastCaught = 0
    /\ rateLimitMap = <<>>
    /\ passed = <<>>
    /\ rateResp = [ip |-> "", status |-> 0, retryAfter |-> 0, next |-> FALSE]
    /\ nElapses = 0
    /\ teraboxPendingDownloads = <<>>
    /\ botReqs = <<>>

\* a part of a Range header: digits, or nothing
Empty == <<>>
Digits(n) == <<n>>
NoRange == [given |-> FALSE, first |-> Empty, second |-> Empty]
NoFileRequest == [exists |-> FALSE, size |-> 0, range |-> NoRange]
NotServed == [status |-> 0]

Init ==
    /\ InitServer
    /\ parseIn = <<>>
    /\ parseOut = NotParsed
    /\ fileReq = NoFileRequest
    /\ fileResp = NotServed

(***************************************************************************)
(* handleIncomingMessage.  An invocation is suspended at await             *)
(* message.getSender() ("getSender") and at the await of the payload       *)
(* download ("photo", "doc"); the library starts one invocation per update *)
(* and does not wait for the previous one.                                 *)
(***************************************************************************)
\* re: the call whose message the event answers (0: none in particular)
Invocation(id, m) ==
    [id |-> id, msg |-> m, pc |-> "getSender", fileName |-> NoFile, re |-> 0]

\* clients that are started and have the message handlers attached
LiveClients == {c \in DOMAIN clients : clients[c].state = "started" /\ clients[c].handlers}

\* the NewMessage / Raw handlers registered by initTelegram are called
DeliverEvent(m) ==
    /\ LiveClients # {}
    /\ nEvents < MaxEvents
    /\ Cardinality(invs) < MaxInv
    /\ nEvents' = nEvents + 1
    /\ invs' = invs \cup {Invocation(nEvents + 1, m)}
    /\ UNCHANGED <<now, reqs, pendingDownloads, downloadProgress,
                   lastFormatMessage, receivedMediaTypes, rmtTimers, files>>
    /\ UNCHANGED <<connVars, webVars>>

AtSender(i) == i \in invs /\ i.pc = "getSender"

\* if (senderUsername !== targetBotName) return
IgnoreSender(i) ==
    /\ AtSender(i) /\ ~FromBot(i.msg)
    /\ invs' = invs \ {i}
    /\ UNCHANGED <<now, reqs, pendingDownloads, downloadProgress,
                   lastFormatMessage, receivedMediaTypes, rmtTimers, files, nEvents>>
    /\ UNCHANGED <<connVars, webVars>>

\* if (isFormatList): store the menu, resolve the first entry, return
MenuResolution(i) ==
    /\ AtSender(i) /\ FromBot(i.msg) /\ IsMenu(i.msg)
    /\ lastFormatMessage' = [id |-> i.id, buttons |-> i.msg.buttons]
    /\ IF Len(pendingDownloads) > 0
       THEN /\ reqs' = Resolve(reqs, {pendingDownloads[1].owner},
                               [type |-> "formats",
                                formats |-> parseYouTubeFormats(i.msg.text)])
            /\ pendingDownloads' = PendingDelete(pendingDownloads, pendingDownloads[1].key)
       ELSE UNCHANGED <<reqs, pendingDownloads>>
    /\ invs' = invs \ {i}
    /\ UNCHANGED <<now, downloadProgress, receivedMediaTypes, rmtTimers,
                   files, nEvents>>
    /\ UNCHANGED <<connVars, webVars>>

\* progress tracking without the test of value.complete
ProgressTrackingAll(i) ==
    /\ AtSender(i) /\ FromBot(i.msg) /\ IsProgress(i.msg)
    /\ downloadProgress' =
         IF HasPercent(i.msg.text)
         THEN [k \in DOMAIN downloadProgress |->
                  [downloadProgress[k] EXCEPT
                      !.progress = FirstPercent(i.msg.text),
                      !.status = Status("Downloading", FirstPercent(i.msg.text), "")]]
         ELSE downloadProgress
    /\ invs' = invs \ {i}
    /\ UNCHANGED <<now, reqs, pendingDownloads, lastFormatMessage,
                   receivedMediaTypes, rmtTimers, files, nEvents>>
    /\ UNCHANGED <<connVars, webVars>>

\* "Track progress messages"
ProgressTracking(i) ==
    /\ AtSender(i) /\ FromBot(i.msg) /\ IsProgress(i.msg)
    /\ downloadProgress' =
         IF HasPercent(i.msg.text)
         THEN [k \in DOMAIN downloadProgress |->
                  IF ~downloadProgress[k].complete
                  THEN [downloadProgress[k] EXCEPT
                           !.progress = FirstPercent(i.msg.text),
                           !.status = Status("Downloading", FirstPercent(i.msg.text), "")]
                  ELSE downloadProgress[k]]
         ELSE downloadProgress
    /\ invs' = invs \ {i}
    /\ UNCHANGED <<now, reqs, pendingDownloads, lastFormatMessage,
                   receivedMediaTypes, rmtTimers, files, nEvents>>
    /\ UNCHANGED <<connVars, webVars>>

\* the message got past the text classification
AtMedia(i) == AtSender(i) /\ FromBot(i.msg) /\ ~IsMenu(i.msg) /\ ~IsProgress(i.msg)

KnownKind(m) == IsVideo(m) \/ IsAudio(m) \/ IsImage(m)

\* the returns that drop a message: nothing awaited, no payload, a payload
\* that is neither photo nor document, an audio skipped by the priority rule,
\* an unknown type, and the TypeError of the type inference (caught, silent)
DiscardMessage(i) ==
    /\ AtMedia(i)
    /\ \/ ~WaitingForMedia
       \/ i.msg.media \notin {"photo", "doc"}
       \/ i.msg.media = "doc" /\ AudioSkipped(i.msg)
       \/ i.msg.media = "doc" /\ ~KnownKind(i.msg)
    /\ invs' = invs \ {i}
    /\ UNCHANGED <<now, reqs, pendingDownloads, downloadProgress,
                   lastFormatMessage, receivedMediaTypes, rmtTimers, files, nEvents>>
    /\ UNCHANGED <<connVars, webVars>>

\* MessageMediaPhoto: await client.downloadMedia
StartPhotoDownload(i) ==
    /\ AtMedia(i) /\ WaitingForMedia /\ i.msg.media = "photo"
    /\ invs' = (invs \ {i}) \cup {[i EXCEPT !.pc = "photo", !.fileName = PhotoFileName(now)]}
    /\ UNCHANGED <<now, reqs, pendingDownloads, downloadProgress,
                   lastFormatMessage, receivedMediaTypes, rmtTimers, files, nEvents>>
    /\ UNCHANGED <<connVars, webVars>>

\* MessageMediaDocument of a known kind: await fastDownloadMedia
StartDocDownload(i) ==
    /\ AtMedia(i) /\ WaitingForMedia /\ i.msg.media = "doc"
    /\ ~AudioSkipped(i.msg) /\ KnownKind(i.msg)
    /\ invs' = (invs \ {i}) \cup {[i EXCEPT !.pc = "doc", !.fileName = DocFileName(i.msg, now)]}
    /\ UNCHANGED <<now, reqs, pendingDownloads, downloadProgress,
                   lastFormatMessage, receivedMediaTypes, rmtTimers, files, nEvents>>
    /\ UNCHANGED <<connVars, webVars>>

\* "Mark and resolve": every entry gets the descriptor, every incomplete
\* ProgressRecord is completed, and the 5 s cleanup timer is set
ResolveAllWith(info) ==
    /\ receivedMediaTypes' =
         [k \in (DOMAIN receivedMediaTypes) \cup PendingKeys(pendingDownloads) |->
             IF k \in PendingKeys(pendingDownloads) THEN info.mediaType
             ELSE receivedMediaTypes[k]]
    /\ reqs' = Resolve(reqs, PendingOwners(pendingDownloads), info)
    /\ pendingDownloads' = <<>>
    /\ downloadProgress' =
         [k \in DOMAIN downloadProgress |->
             IF ~downloadProgress[k].complete
             THEN [downloadProgress[k] EXCEPT
                      !.progress = 100, !.complete = TRUE, !.success = TRUE,
                      !.videoUrl = info.url, !.fileName = info.fileName,
                      !.mediaType = info.mediaType]
             ELSE downloadProgress[k]]
    /\ rmtTimers' = rmtTimers \cup {now + RMT_CLEANUP_DELAY}

\* every entry is resolved with null
FailAllPending ==
    /\ reqs' = Resolve(reqs, PendingOwners(pendingDownloads), NullResult)
    /\ pendingDownloads' = <<>>

\* every incomplete ProgressRecord is marked failed
FailAllProgress ==
    downloadProgress' =
        [k \in DOMAIN downloadProgress |->
            IF ~downloadProgress[k].complete
            THEN [downloadProgress[k] EXCEPT
                     !.complete = TRUE, !.success = FALSE, !.error = "Download failed"]
            ELSE downloadProgress[k]]

\* the photo was downloaded and written
PhotoSaved(i) ==
    /\ i \in invs /\ i.pc = "photo"
    /\ files' = WriteFile(files, i.fileName, now)
    /\ ResolveAllWith(PhotoDescriptor(i.fileName, now))
    /\ invs' = invs \ {i}
    /\ UNCHANGED <<now, lastFormatMessage, nEvents>>
    /\ UNCHANGED <<connVars, webVars>>

\* client.downloadMedia or fs.writeFileSync threw in the photo branch
PhotoFailed(i, written) ==
    /\ i \in invs /\ i.pc = "photo"
    /\ files' = IF written THEN WritePartial(files, i.fileName, now) ELSE files
    /\ FailAllPending
    /\ invs' = invs \ {i}
    /\ UNCHANGED <<now, downloadProgress, lastFormatMessage,
                   receivedMediaTypes, rmtTimers, nEvents>>
    /\ UNCHANGED <<connVars, webVars>>

\* fastDownloadMedia returned: the document is on disk
DocSaved(i) ==
    /\ i \in invs /\ i.pc = "doc"
    /\ files' = WriteFile(files, i.fileName, now)
    /\ ResolveAllWith(DocDescriptor(i.msg, i.fileName, now))
    /\ invs' = invs \ {i}
    /\ UNCHANGED <<now, lastFormatMessage, nEvents>>
    /\ UNCHANGED <<connVars, webVars>>

\* fastDownloadMedia threw (the download, or the write after the file was
\* opened): its catch and the handler's catch unlink the file
DocFailed(i) ==
    /\ i \in invs /\ i.pc = "doc"
    /\ files' = Unlink(files, i.fileName)
    /\ FailAllPending
    /\ FailAllProgress
    /\ invs' = invs \ {i}
    /\ UNCHANGED <<now, lastFormatMessage, receivedMediaTypes, rmtTimers, nEvents>>
    /\ UNCHANGED <<connVars, webVars>>

\* the 5 s timer set after a payload: receivedMediaTypes is emptied
ClearReceivedMediaTypes(d) ==
    /\ d \in rmtTimers /\ now >= d
    /\ receivedMediaTypes' = <<>>
    /\ rmtTimers' = rmtTimers \ {d}
    /\ UNCHANGED <<now, reqs, pendingDownloads, downloadProgress,
                   lastFormatMessage, files, invs, nEvents>>
    /\ UNCHANGED <<connVars, webVars>>


(***************************************************************************)
(* The bot-facing HTTP handlers.  A call is "sending" while it awaits      *)
(* getEntity and sendMessage, "entity" while POST /api/youtube/download    *)
(* awaits getEntity, "clicking" while it awaits the click or the fallback  *)
(* message, "waiting" once its promise is registered, and "done" when the  *)
(* promise is settled or the call has been answered with an error.         *)
(***************************************************************************)
Kinds == {"download", "formats", "dlformat"}
\* req.body: url and format are a string or missing (""); "720p" is a button
\* of the menu, "4320p" is on no button
Urls == {"", "u"}
Formats == {"", "720p", "4320p"}

\* if (!url) / if (!url || !format): the fields the route requires are there
BodyOk(kind, url, format) == url # "" /\ (kind = "dlformat" => format # "")

TimeoutOf(kind) == IF kind = "formats" THEN FORMAT_TIMEOUT ELSE DOWNLOAD_TIMEOUT

NewCall(kind, url, format) ==
    [kind |-> kind, url |-> url,
     format |-> IF kind = "dlformat" THEN format ELSE "", pc |-> "sending", key |-> 0, deadline |-> 0,
     sent |-> FALSE, registered |-> FALSE, fired |-> FALSE, clicked |-> FALSE,
     clickError |-> FALSE,
     ncalls |-> 0, value |-> Pending, resp |-> NoResponse]

\* if (!url) return res.status(400): a required field of the body is missing
RejectBadBody(kind, url, format) ==
    /\ Len(reqs) < MaxReq
    /\ ~BodyOk(kind, url, format)
    /\ reqs' = Append(reqs, [NewCall(kind, url, format) EXCEPT
                                !.pc = "done", !.resp = [status |-> 400]])
    /\ UNCHANGED <<now, pendingDownloads, downloadProgress, lastFormatMessage,
                   receivedMediaTypes, rmtTimers, files, invs, nEvents>>
    /\ UNCHANGED <<connVars, webVars>>

\* a route without the connection check: the handler goes on to getEntity
RejectNotConnectedUngated(kind, url, format) ==
    /\ Len(reqs) < MaxReq
    /\ BodyOk(kind, url, format)
    /\ client = 0 \/ ~isConnected
    /\ reqs' = Append(reqs, [NewCall(kind, url, format) EXCEPT
                                !.pc = IF kind = "dlformat" THEN "entity" ELSE "sending"])
    /\ UNCHANGED <<now, pendingDownloads, downloadProgress, lastFormatMessage,
                   receivedMediaTypes, rmtTimers, files, invs, nEvents>>
    /\ UNCHANGED <<connVars, webVars>>

\* if (!client || !isConnected) return res.status(503)
RejectNotConnected(kind, url, format) ==
    /\ Len(reqs) < MaxReq
    /\ BodyOk(kind, url, format)
    /\ client = 0 \/ ~isConnected
    /\ reqs' = Append(reqs, [NewCall(kind, url, format) EXCEPT
                                !.pc = "done", !.resp = [status |-> 503]])
    /\ UNCHANGED <<now, pendingDownloads, downloadProgress, lastFormatMessage,
                   receivedMediaTypes, rmtTimers, files, invs, nEvents>>
    /\ UNCHANGED <<connVars, webVars>>

\* the connection check passed: the handler awaits getEntity (and sendMessage)
BeginCall(kind, url, format) ==
    /\ Len(reqs) < MaxReq
    /\ BodyOk(kind, url, format)
    /\ client # 0 /\ isConnected
    /\ reqs' = Append(reqs, [NewCall(kind, url, format) EXCEPT
                                !.pc = IF kind = "dlformat" THEN "entity" ELSE "sending"])
    /\ UNCHANGED <<now, pendingDownloads, downloadProgress, lastFormatMessage,
                   receivedMediaTypes, rmtTimers, files, invs, nEvents>>
    /\ UNCHANGED <<connVars, webVars>>

\* getEntity, sendMessage or the fallback message threw an error other than
\* "not connected": the outer catch answers 500
CallFails(r) ==
    /\ r \in DOMAIN reqs /\ reqs[r].pc \in {"sending", "entity", "clicking"}
    /\ reqs' = [reqs EXCEPT ![r].pc = "done", ![r].resp = [status |-> 500]]
    /\ UNCHANGED <<now, pendingDownloads, downloadProgress, lastFormatMessage,
                   receivedMediaTypes, rmtTimers, files, invs, nEvents>>
    /\ UNCHANGED <<connVars, webVars>>

\* POST /api/download and /api/youtube/formats after sendMessage:
\* requestId = Date.now(); pendingDownloads.set(requestId, resolve); setTimeout
RegisterCall(r) ==
    /\ r \in DOMAIN reqs /\ reqs[r].pc = "sending"
    /\ reqs' = [reqs EXCEPT ![r].pc = "waiting", ![r].key = now, ![r].registered = TRUE,
                            ![r].sent = TRUE,
                            ![r].deadline = now + TimeoutOf(reqs[r].kind)]
    /\ pendingDownloads' = PendingSet(pendingDownloads, now, r)
    /\ UNCHANGED <<now, downloadProgress, lastFormatMessage,
                   receivedMediaTypes, rmtTimers, files, invs, nEvents>>
    /\ UNCHANGED <<connVars, webVars>>

\* POST /api/youtube/download after getEntity: the ProgressRecord is created,
\* then the stored menu is looked up (400 if there is none) and clicked
CreateProgress(r) ==
    /\ r \in DOMAIN reqs /\ reqs[r].pc = "entity"
    /\ downloadProgress' = MapSet(downloadProgress, now, NewProgress(now))
    /\ reqs' = IF lastFormatMessage = NoMessage
               THEN [reqs EXCEPT ![r].pc = "done", ![r].key = now,
                                 ![r].resp = [status |-> 400]]
               ELSE [reqs EXCEPT ![r].pc = "clicking", ![r].key = now,
                                 ![r].clicked = reqs[r].format \in lastFormatMessage.buttons]
    /\ UNCHANGED <<now, pendingDownloads, lastFormatMessage,
                   receivedMediaTypes, rmtTimers, files, invs, nEvents>>
    /\ UNCHANGED <<connVars, webVars>>

\* the click (ok) or the fallback text message went through: the progress is
\* updated after a click, the call is answered with its requestId, and the
\* promise is registered under that requestId
RegisterFormatCall(r, ok) ==
    /\ r \in DOMAIN reqs /\ reqs[r].pc = "clicking"
    /\ downloadProgress' =
         IF reqs[r].clicked /\ ok /\ reqs[r].key \in DOMAIN downloadProgress
         THEN [downloadProgress EXCEPT
                  ![reqs[r].key].progress = 10,
                  ![reqs[r].key].status = Status("Processing", 0, reqs[r].format)]
         ELSE downloadProgress
    /\ reqs' = [reqs EXCEPT ![r].pc = "waiting", ![r].registered = TRUE,
                            ![r].sent = TRUE,
                            ![r].clickError = reqs[r].clicked /\ ~ok,
                            ![r].deadline = now + DOWNLOAD_TIMEOUT,
                            ![r].resp = [status |-> 200, requestId |-> reqs[r].key]]
    /\ pendingDownloads' = PendingSet(pendingDownloads, reqs[r].key, r)
    /\ UNCHANGED <<now, lastFormatMessage,
                   receivedMediaTypes, rmtTimers, files, invs, nEvents>>
    /\ UNCHANGED <<connVars, webVars>>

\* timers of one duration fire in the order of their deadlines
TimerDue(r) ==
    /\ r \in DOMAIN reqs /\ reqs[r].registered /\ ~reqs[r].fired
    /\ now >= reqs[r].deadline
    /\ \A q \in DOMAIN reqs :
          (reqs[q].registered /\ ~reqs[q].fired
             /\ TimeoutOf(reqs[q].kind) = TimeoutOf(reqs[r].kind))
          => reqs[q].deadline >= reqs[r].deadline

\* the deadline timer of a call: if the map has its requestId, the entry is
\* deleted and the call's own resolve is called with null; for
\* POST /api/youtube/download the ProgressRecord is marked failed first
DeadlineTimer(r) ==
    /\ TimerDue(r)
    /\ IF PendingHas(pendingDownloads, reqs[r].key)
       THEN /\ pendingDownloads' = PendingDelete(pendingDownloads, reqs[r].key)
            /\ downloadProgress' =
                 IF reqs[r].kind = "dlformat" /\ reqs[r].key \in DOMAIN downloadProgress
                 THEN [downloadProgress EXCEPT
                          ![reqs[r].key].complete = TRUE,
                          ![reqs[r].key].success = FALSE,
                          ![reqs[r].key].error = "Download timeout - bot did not send video"]
                 ELSE downloadProgress
            /\ reqs' = [Resolve(reqs, {r}, NullResult) EXCEPT ![r].fired = TRUE]
       ELSE /\ reqs' = [reqs EXCEPT ![r].fired = TRUE]
            /\ UNCHANGED <<pendingDownloads, downloadProgress>>
    /\ UNCHANGED <<now, lastFormatMessage,
                   receivedMediaTypes, rmtTimers, files, invs, nEvents>>
    /\ UNCHANGED <<connVars, webVars>>

(***************************************************************************)
(* GET /api/youtube/progress/:id.                                          *)
(***************************************************************************)
\* the body sent for an id that downloadProgress does not have
UnknownRequest ==
    [progress |-> 0, status |-> Status("Unknown request", 0, ""),
     complete |-> TRUE, success |-> FALSE, error |-> "Request not found"]

\* the ids a client polls: those of the records, and the first milliseconds
PollIds == DOMAIN downloadProgress \cup 0..MaxMsTicks

\* the record is sent as it is; if it is complete a 60 s timer is set that
\* deletes the id
PollProgress(id) ==
    /\ Len(polled) < MaxPolls
    /\ id \in PollIds
    /\ polled' = Append(polled,
                    [id |-> id,
                     body |-> IF id \in DOMAIN downloadProgress
                              THEN downloadProgress[id] ELSE UnknownRequest])
    /\ purgeTimers' =
         IF id \in DOMAIN downloadProgress /\ downloadProgress[id].complete
         THEN purgeTimers \cup {[key |-> id, at |-> now + PROGRESS_PURGE_DELAY]}
         ELSE purgeTimers
    /\ UNCHANGED <<corrVars, connVars, nSweeps, lastCaught, pureVars, rateVars, botVars>>

\* setTimeout(() => downloadProgress.delete(requestId), 60000)
PurgeTimer(t) ==
    /\ t \in purgeTimers /\ now >= t.at
    /\ purgeTimers' = purgeTimers \ {t}
    /\ downloadProgress' = MapDelete(downloadProgress, t.key)
    /\ UNCHANGED <<now, reqs, pendingDownloads, lastFormatMessage,
                   receivedMediaTypes, rmtTimers, files, invs, nEvents>>
    /\ UNCHANGED <<connVars, polled, nSweeps, lastCaught, pureVars, rateVars, botVars>>

(***************************************************************************)
(* The clock.                                                              *)
(***************************************************************************)
Deadlines ==
    {reqs[r].deadline : r \in {q \in DOMAIN reqs : reqs[q].registered /\ ~reqs[q].fired}}
    \cup rmtTimers
    \cup {t.at : t \in purgeTimers}

\* a timer whose deadline has passed runs before the clock moves on
NoTimerDue == \A d \in Deadlines : d > now

\* one millisecond passes
TickMs ==
    /\ now < MaxMsTicks
    /\ NoTimerDue
    /\ now' = now + 1
    /\ UNCHANGED <<reqs, pendingDownloads, downloadProgress, lastFormatMessage,
                   receivedMediaTypes, rmtTimers, files, invs, nEvents>>
    /\ UNCHANGED <<connVars, webVars>>

\* time passes until the next timer is due
AdvanceToDeadline ==
    /\ Deadlines # {} /\ NoTimerDue
    /\ now' = SetMin(Deadlines)
    /\ UNCHANGED <<reqs, pendingDownloads, downloadProgress, lastFormatMessage,
                   receivedMediaTypes, rmtTimers, files, invs, nEvents>>
    /\ UNCHANGED <<connVars, webVars>>


(***************************************************************************)
(* The connection manager: initTelegram, the client's error events, the    *)
(* liveness probe and scheduleReconnect.                                   *)
(***************************************************************************)
\* a scheduleReconnect() that sets no timer
ScheduleReconnectIdle(rec) ==
    reconnectTimeout' = reconnectTimeout

\* scheduleReconnect(), called while isReconnecting has the value rec:
\* the pending timer is cleared and a new 5 s timer is set
ScheduleReconnect(rec) ==
    reconnectTimeout' = IF rec THEN reconnectTimeout ELSE "armed"

\* initTelegram up to await client.start: a new client replaces the global one
InitTelegramBegin(reconnect) ==
    /\ Len(clients) < MaxClients
    /\ clients' = Append(clients, [state |-> "starting", handlers |-> FALSE])
    /\ client' = Len(clients) + 1
    /\ inits' = inits \cup {[c |-> Len(clients) + 1, reconnect |-> reconnect]}

\* app.listen: the server starts and calls initTelegram once
AppListen ==
    /\ clients = <<>> /\ inits = {}
    /\ InitTelegramBegin(FALSE)
    /\ UNCHANGED <<isConnected, isReconnecting, reconnectTimeout, rseq, nSeqs,
                   keepAlives, probes, dupSeen, nFaults>>
    /\ UNCHANGED <<corrVars, webVars>>

\* client.start returned: isConnected = true, isReconnecting = false, the
\* handlers are attached to the global client and the probe interval is set;
\* with the global client null the attach throws and the catch runs
StartSucceeds(i) ==
    /\ i \in inits
    /\ inits' = inits \ {i}
    /\ IF client # 0
       THEN /\ clients' = [[clients EXCEPT ![i.c].state = "started"]
                              EXCEPT ![client].handlers = TRUE]
            /\ isConnected' = TRUE
            /\ isReconnecting' = FALSE
            /\ keepAlives' = keepAlives + 1
            /\ UNCHANGED reconnectTimeout
       ELSE /\ clients' = [clients EXCEPT ![i.c].state = "started"]
            /\ isConnected' = FALSE
            /\ isReconnecting' = FALSE
            /\ ScheduleReconnect(FALSE)
            /\ UNCHANGED keepAlives
    /\ UNCHANGED <<client, rseq, nSeqs, probes, dupSeen, nFaults>>
    /\ UNCHANGED <<corrVars, webVars>>

\* client.start threw: the catch of initTelegram; a duplicate-session error
\* returns without scheduling a reconnect
StartFails(i, dup) ==
    /\ i \in inits
    /\ nFaults < MaxFaults
    /\ nFaults' = nFaults + 1
    /\ inits' = inits \ {i}
    /\ clients' = [clients EXCEPT ![i.c].state = "failed"]
    /\ isConnected' = FALSE
    /\ isReconnecting' = FALSE
    /\ IF dup
       THEN dupSeen' = TRUE /\ UNCHANGED reconnectTimeout
       ELSE ScheduleReconnect(FALSE) /\ UNCHANGED dupSeen
    /\ UNCHANGED <<client, rseq, nSeqs, keepAlives, probes>>
    /\ UNCHANGED <<corrVars, webVars>>

\* client.on('error') of a client that has not been disconnected
ClientError(c, dup) ==
    /\ c \in DOMAIN clients /\ clients[c].state \in {"starting", "started"}
    /\ nFaults < MaxFaults
    /\ nFaults' = nFaults + 1
    /\ isConnected' = FALSE
    /\ IF dup
       THEN /\ isReconnecting' = FALSE
            /\ dupSeen' = TRUE
            /\ UNCHANGED reconnectTimeout
       ELSE /\ ScheduleReconnect(isReconnecting)
            /\ UNCHANGED <<isReconnecting, dupSeen>>
    /\ UNCHANGED <<client, clients, inits, rseq, nSeqs, keepAlives, probes>>
    /\ UNCHANGED <<corrVars, webVars>>

\* a tick of a probe interval: if (client && isConnected) await client.getMe()
ProbeStarts ==
    /\ keepAlives > 0 /\ client # 0 /\ isConnected
    /\ probes < MaxProbes
    /\ probes' = probes + 1
    /\ UNCHANGED <<client, clients, isConnected, isReconnecting, reconnectTimeout,
                   inits, rseq, nSeqs, keepAlives, dupSeen, nFaults>>
    /\ UNCHANGED <<corrVars, webVars>>

ProbeAnswered ==
    /\ probes > 0
    /\ probes' = probes - 1
    /\ UNCHANGED <<client, clients, isConnected, isReconnecting, reconnectTimeout,
                   inits, rseq, nSeqs, keepAlives, dupSeen, nFaults>>
    /\ UNCHANGED <<corrVars, webVars>>

\* client.getMe threw (dup: with AUTH_KEY_DUPLICATED): the catch does not look
\* at the error: isConnected = false; scheduleReconnect()
ProbeFails(dup) ==
    /\ probes > 0
    /\ nFaults < MaxFaults
    /\ nFaults' = nFaults + 1
    /\ probes' = probes - 1
    /\ isConnected' = FALSE
    /\ ScheduleReconnect(isReconnecting)
    /\ dupSeen' = (dupSeen \/ dup)
    /\ UNCHANGED <<client, clients, isReconnecting, inits, rseq, nSeqs, keepAlives>>
    /\ UNCHANGED <<corrVars, webVars>>

\* the 5 s timer of scheduleReconnect fires: unless a reconnect is running,
\* isReconnecting = true and the old client, if any, is disconnected
ReconnectTimerFires ==
    /\ reconnectTimeout = "armed"
    /\ reconnectTimeout' = "fired"
    /\ IF isReconnecting
       THEN UNCHANGED <<isReconnecting, rseq, nSeqs>>
       ELSE /\ isReconnecting' = TRUE
            /\ nSeqs' = nSeqs + 1
            /\ rseq' = rseq \cup {[id |-> nSeqs + 1, c |-> client,
                                   pc |-> IF client # 0 THEN "disconnect" ELSE "wait"]}
    /\ UNCHANGED <<client, clients, isConnected, inits, keepAlives, probes, dupSeen, nFaults>>
    /\ UNCHANGED <<corrVars, webVars>>

\* await client.disconnect() is over (ok) or threw: client = null
ReconnectDisconnected(s, ok) ==
    /\ s \in rseq /\ s.pc = "disconnect"
    /\ clients' = IF ok THEN [clients EXCEPT ![s.c].state = "disconnected"] ELSE clients
    /\ client' = 0
    /\ rseq' = (rseq \ {s}) \cup {[s EXCEPT !.pc = "wait"]}
    /\ UNCHANGED <<isConnected, isReconnecting, reconnectTimeout, inits, nSeqs,
                   keepAlives, probes, dupSeen, nFaults>>
    /\ UNCHANGED <<corrVars, webVars>>

\* the 3 s wait is over: await initTelegram()
ReconnectInit(s) ==
    /\ s \in rseq /\ s.pc = "wait"
    /\ rseq' = rseq \ {s}
    /\ InitTelegramBegin(TRUE)
    /\ UNCHANGED <<isConnected, isReconnecting, reconnectTimeout, nSeqs,
                   keepAlives, probes, dupSeen, nFaults>>
    /\ UNCHANGED <<corrVars, webVars>>

\* POST /api/download: sendMessage threw a "not connected" error; the catch
\* sets isConnected = false, schedules a reconnect and answers 503
CallNotConnected(r) ==
    /\ r \in DOMAIN reqs /\ reqs[r].pc = "sending" /\ reqs[r].kind = "download"
    /\ reqs' = [reqs EXCEPT ![r].pc = "done", ![r].resp = [status |-> 503]]
    /\ isConnected' = FALSE
    /\ ScheduleReconnect(isReconnecting)
    /\ UNCHANGED <<now, pendingDownloads, downloadProgress, lastFormatMessage,
                   receivedMediaTypes, rmtTimers, files, invs, nEvents>>
    /\ UNCHANGED <<client, clients, isReconnecting, inits, rseq, nSeqs,
                   keepAlives, probes, dupSeen, nFaults>>
    /\ UNCHANGED webVars

(***************************************************************************)
(* Spec: the correlation of bot events with HTTP calls over one            *)
(* connection that stays up.                                               *)
(***************************************************************************)
Next ==
    \/ AppListen
    \/ \E i \in inits : StartSucceeds(i)
    \/ \E m \in Messages : DeliverEvent(m)
    \/ \E i \in invs : IgnoreSender(i)
    \/ \E i \in invs : MenuResolution(i)
    \/ \E i \in invs : ProgressTracking(i)
    \/ \E i \in invs : DiscardMessage(i)
    \/ \E i \in invs : StartPhotoDownload(i)
    \/ \E i \in invs : StartDocDownload(i)
    \/ \E i \in invs : PhotoSaved(i)
    \/ \E i \in invs, written \in BOOLEAN : PhotoFailed(i, written)
    \/ \E i \in invs : DocSaved(i)
    \/ \E i \in invs : DocFailed(i)
    \/ \E d \in rmtTimers : ClearReceivedMediaTypes(d)
    \/ \E k \in Kinds, u \in Urls, f \in Formats : BeginCall(k, u, f)
    \/ \E r \in DOMAIN reqs : RegisterCall(r)
    \/ \E r \in DOMAIN reqs : CreateProgress(r)
    \/ \E r \in DOMAIN reqs, ok \in BOOLEAN : RegisterFormatCall(r, ok)
    \/ \E r \in DOMAIN reqs : DeadlineTimer(r)
    \/ TickMs
    \/ AdvanceToDeadline

Spec == Init /\ [][Next]_vars

(***************************************************************************)
(* SpecConn: the connection manager under connection faults.               *)
(***************************************************************************)
NextConn ==
    \/ AppListen
    \/ \E i \in inits : StartSucceeds(i)
    \/ \E i \in inits, dup \in BOOLEAN : StartFails(i, dup)
    \/ \E c \in DOMAIN clients, dup \in BOOLEAN : ClientError(c, dup)
    \/ ProbeStarts
    \/ ProbeAnswered
    \/ \E dup \in BOOLEAN : ProbeFails(dup)
    \/ ReconnectTimerFires
    \/ \E s \in rseq, ok \in BOOLEAN : ReconnectDisconnected(s, ok)
    \/ \E s \in rseq : ReconnectInit(s)
    \/ \E k \in Kinds, u \in Urls, f \in Formats : RejectBadBody(k, u, f)
    \/ \E k \in Kinds, u \in Urls, f \in Formats : RejectNotConnected(k, u, f)
    \/ \E u \in Urls, f \in Formats : BeginCall("download", u, f)
    \/ \E r \in DOMAIN reqs : CallFails(r)
    \/ \E r \in DOMAIN reqs : CallNotConnected(r)

SpecConn == Init /\ [][NextConn]_vars


(***************************************************************************)
(* SpecProgress: the life of the ProgressRecords of POST                   *)
(* /api/youtube/download, polled through GET /api/youtube/progress/:id.    *)
(* The timers and the clock are fair; events, calls and polls are not.     *)
(***************************************************************************)
ProgressMessages == {MenuMsg, VideoMsg}

Timers ==
    \/ \E r \in DOMAIN reqs : DeadlineTimer(r)
    \/ \E d \in rmtTimers : ClearReceivedMediaTypes(d)
    \/ \E t \in purgeTimers : PurgeTimer(t)

NextProgress ==
    \/ AppListen
    \/ \E i \in inits : StartSucceeds(i)
    \/ \E m \in ProgressMessages : DeliverEvent(m)
    \/ \E i \in invs : MenuResolution(i)
    \/ \E i \in invs : DiscardMessage(i)
    \/ \E i \in invs : StartDocDownload(i)
    \/ \E i \in invs : DocSaved(i)
    \/ \E i \in invs : DocFailed(i)
    \/ \E u \in Urls, f \in Formats :
          Len(reqs) < MaxPolledCalls /\ BeginCall("dlformat", u, f)
    \/ \E r \in DOMAIN reqs : CreateProgress(r)
    \/ \E r \in DOMAIN reqs, ok \in BOOLEAN : RegisterFormatCall(r, ok)
    \/ \E id \in PollIds : PollProgress(id)
    \/ Timers
    \/ TickMs
    \/ AdvanceToDeadline

\* the steps of the event handler and of the route: an await that was
\* started returns, and the code after it runs
HandlerSteps ==
    \E i \in invs :
        \/ MenuResolution(i) \/ DiscardMessage(i) \/ StartDocDownload(i)
        \/ DocSaved(i) \/ DocFailed(i)

RouteSteps ==
    \E r \in DOMAIN reqs :
        CreateProgress(r) \/ \E ok \in BOOLEAN : RegisterFormatCall(r, ok)

SpecProgress ==
    /\ Init /\ [][NextProgress]_vars
    /\ WF_vars(Timers)
    /\ WF_vars(AdvanceToDeadline)
    /\ WF_vars(HandlerSteps)
    /\ WF_vars(RouteSteps)

(***************************************************************************)
(* SpecReply: POST /api/download and /api/youtube/formats with the await   *)
(* of sendMessage split at the moment the message has left, and bot events *)
(* that answer a message that was sent.                                    *)
(***************************************************************************)
\* await client.sendMessage(bot, { message: url }): the message is on its way
\* to the bot while the route is still suspended in the await
MessageLeaves(r) ==
    /\ r \in DOMAIN reqs /\ reqs[r].pc = "sending" /\ ~reqs[r].sent
    /\ reqs' = [reqs EXCEPT ![r].sent = TRUE]
    /\ UNCHANGED <<now, pendingDownloads, downloadProgress, lastFormatMessage,
                   receivedMediaTypes, rmtTimers, files, invs, nEvents>>
    /\ UNCHANGED <<connVars, webVars>>

\* the handlers are called with the bot's answer to the message of call r
DeliverReply(m, r) ==
    /\ r \in DOMAIN reqs /\ reqs[r].sent
    /\ LiveClients # {}
    /\ nEvents < MaxEvents
    /\ Cardinality(invs) < MaxInv
    /\ nEvents' = nEvents + 1
    /\ invs' = invs \cup {[Invocation(nEvents + 1, m) EXCEPT !.re = r]}
    /\ UNCHANGED <<now, reqs, pendingDownloads, downloadProgress,
                   lastFormatMessage, receivedMediaTypes, rmtTimers, files>>
    /\ UNCHANGED <<connVars, webVars>>

\* the answer of the bot to a URL: the menu, or the payload
Replies(kind) == IF kind = "formats" THEN {MenuMsg} ELSE {PhotoMsg}

NextReply ==
    \/ AppListen
    \/ \E i \in inits : StartSucceeds(i)
    \/ \E k \in {"download", "formats"}, u \in Urls, f \in Formats : BeginCall(k, u, f)
    \/ \E r \in DOMAIN reqs : MessageLeaves(r)
    \/ \E r \in DOMAIN reqs : CallFails(r)
    \/ \E r \in DOMAIN reqs : reqs[r].sent /\ RegisterCall(r)
    \/ \E r \in DOMAIN reqs : \E m \in Replies(reqs[r].kind) : DeliverReply(m, r)
    \/ \E i \in invs : MenuResolution(i)
    \/ \E i \in invs : DiscardMessage(i)
    \/ \E i \in invs : StartPhotoDownload(i)
    \/ \E i \in invs : PhotoSaved(i)
    \/ \E r \in DOMAIN reqs : DeadlineTimer(r)
    \/ \E d \in rmtTimers : ClearReceivedMediaTypes(d)
    \/ TickMs
    \/ AdvanceToDeadline

SpecReply == Init /\ [][NextReply]_vars

(***************************************************************************)
(* SpecCaption: payloads of the bot that carry a caption, handled while    *)
(* POST /api/download calls are waiting.                                   *)
(***************************************************************************)
\* message.text of a message with media is its caption
MenuCaptionVideo ==
    Msg(Bot, <<TClap, TWord, TLabel("720p")>>, "doc", {"video"}, "video/mp4", {})
ProgressCaptionVideo == Msg(Bot, <<TBar, TPct(100)>>, "doc", {"video"}, "video/mp4", {})
PlainCaptionPhoto == Msg(Bot, <<TWord>>, "photo", {}, "", {})
CaptionMessages == {MenuCaptionVideo, ProgressCaptionVideo, PlainCaptionPhoto, VideoMsg}

NextCaption ==
    \/ AppListen
    \/ \E i \in inits : StartSucceeds(i)
    \/ \E m \in CaptionMessages : DeliverEvent(m)
    \/ \E i \in invs : MenuResolution(i)
    \/ \E i \in invs : ProgressTracking(i)
    \/ \E i \in invs : DiscardMessage(i)
    \/ \E i \in invs : StartPhotoDownload(i)
    \/ \E i \in invs : StartDocDownload(i)
    \/ \E i \in invs : PhotoSaved(i)
    \/ \E i \in invs : DocSaved(i)
    \/ \E i \in invs : DocFailed(i)
    \/ \E d \in rmtTimers : ClearReceivedMediaTypes(d)
    \/ \E u \in Urls, f \in Formats : BeginCall("download", u, f)
    \/ \E r \in DOMAIN reqs : RegisterCall(r)
    \/ \E r \in DOMAIN reqs : DeadlineTimer(r)
    \/ TickMs
    \/ AdvanceToDeadline

SpecCaption == Init /\ [][NextCaption]_vars

(***************************************************************************)
(* SpecLateAudio: the bot answers a call with a video and with an audio    *)
(* document; calls of POST /api/download and POST /api/youtube/download.   *)
(***************************************************************************)
NextLateAudio ==
    \/ AppListen
    \/ \E i \in inits : StartSucceeds(i)
    \/ \E k \in {"download", "dlformat"}, u \in Urls, f \in Formats : BeginCall(k, u, f)
    \/ \E r \in DOMAIN reqs : RegisterCall(r)
    \/ \E r \in DOMAIN reqs : CreateProgress(r)
    \/ \E r \in DOMAIN reqs : \E m \in {VideoMsg, AudioMsg} : DeliverReply(m, r)
    \/ \E i \in invs : DiscardMessage(i)
    \/ \E i \in invs : StartDocDownload(i)
    \/ \E i \in invs : DocSaved(i)
    \/ \E d \in rmtTimers : ClearReceivedMediaTypes(d)
    \/ \E r \in DOMAIN reqs : DeadlineTimer(r)
    \/ TickMs
    \/ AdvanceToDeadline

SpecLateAudio == Init /\ [][NextLateAudio]_vars

(***************************************************************************)
(* SpecClassify: documents of the bot with the MIME types and attributes   *)
(* that the classification tells apart, handled while POST /api/download   *)
(* calls are waiting.                                                      *)
(***************************************************************************)
Doc(attrs, mime) == Msg(Bot, <<>>, "doc", attrs, mime, {})

DocMessages ==
    {Doc({"video"}, "video/mp4"), Doc({}, "video/mpeg"), Doc({"audio"}, "audio/mpeg"),
     Doc({}, "image/png"), Doc({"imagesize"}, "video/webm"),
     Doc({}, "application/mp4"), Doc({}, "application/zip")}

NextClassify ==
    \/ AppListen
    \/ \E i \in inits : StartSucceeds(i)
    \/ \E m \in DocMessages : DeliverEvent(m)
    \/ \E i \in invs : DiscardMessage(i)
    \/ \E i \in invs : StartDocDownload(i)
    \/ \E i \in invs : DocSaved(i)
    \/ \E i \in invs : DocFailed(i)
    \/ \E d \in rmtTimers : ClearReceivedMediaTypes(d)
    \/ \E u \in Urls, f \in Formats : BeginCall("download", u, f)
    \/ \E r \in DOMAIN reqs : RegisterCall(r)
    \/ \E r \in DOMAIN reqs : DeadlineTimer(r)
    \/ TickMs
    \/ AdvanceToDeadline

SpecClassify == Init /\ [][NextClassify]_vars

(***************************************************************************)
(* SpecContain: events whose handling throws before the classification,    *)
(* among menus and videos for waiting calls.                               *)
(***************************************************************************)
\* a catch that fails everything that is waiting, as the catches of the
\* transfers do
HandlerThrowsAndFails(i) ==
    /\ AtSender(i)
    /\ invs' = invs \ {i}
    /\ lastCaught' = nEvents
    /\ FailAllPending
    /\ FailAllProgress
    /\ UNCHANGED <<now, lastFormatMessage, receivedMediaTypes, rmtTimers, files, nEvents>>
    /\ UNCHANGED <<connVars, purgeTimers, polled, nSweeps, pureVars, rateVars, botVars>>

\* await message.getSender() threw: the catch of handleIncomingMessage runs,
\* which does nothing
HandlerThrows(i) ==
    /\ AtSender(i)
    /\ invs' = invs \ {i}
    /\ lastCaught' = nEvents
    /\ UNCHANGED <<now, reqs, pendingDownloads, downloadProgress, lastFormatMessage,
                   receivedMediaTypes, rmtTimers, files, nEvents>>
    /\ UNCHANGED <<connVars, purgeTimers, polled, nSweeps, pureVars, rateVars, botVars>>

NextContain ==
    \/ AppListen
    \/ \E i \in inits : StartSucceeds(i)
    \/ \E m \in {MenuMsg, VideoMsg} : DeliverEvent(m)
    \/ \E i \in invs : HandlerThrows(i)
    \/ \E i \in invs : MenuResolution(i)
    \/ \E i \in invs : DiscardMessage(i)
    \/ \E i \in invs : StartDocDownload(i)
    \/ \E i \in invs : DocSaved(i)
    \/ \E d \in rmtTimers : ClearReceivedMediaTypes(d)
    \/ \E k \in {"download", "formats"}, u \in Urls, f \in Formats : BeginCall(k, u, f)
    \/ \E r \in DOMAIN reqs : RegisterCall(r)
    \/ \E r \in DOMAIN reqs : DeadlineTimer(r)
    \/ TickMs
    \/ AdvanceToDeadline

SpecContain == Init /\ [][NextContain]_vars

(***************************************************************************)
(* SpecSweep: the hourly sweep of the downloads directory, with files      *)
(* written by the handler of bot events for POST /api/download calls.      *)
(***************************************************************************)
\* the interval timer is set when the module is loaded, at time 0
NextSweepTime == (nSweeps + 1) * SWEEP_INTERVAL

\* a sweep that also deletes a file whose age is exactly the retention time
ExpiredInclusive(age) == age >= RETENTION

\* if (fileAge > 3600000)
Expired(age) == age > RETENTION

\* one run of the sweep: every file of the directory whose age exceeds the
\* retention time is unlinked
Sweep ==
    /\ nSweeps < MaxSweeps
    /\ now = NextSweepTime
    /\ nSweeps' = nSweeps + 1
    /\ files' = [f \in {g \in DOMAIN files : ~Expired(now - files[g].mtime)} |-> files[f]]
    /\ UNCHANGED <<now, reqs, pendingDownloads, downloadProgress, lastFormatMessage,
                   receivedMediaTypes, rmtTimers, invs, nEvents>>
    /\ UNCHANGED <<connVars, purgeTimers, polled, lastCaught, pureVars, rateVars, botVars>>

\* time passes until the interval timer of the sweep is due
AdvanceToSweep ==
    /\ nSweeps < MaxSweeps
    /\ now < NextSweepTime
    /\ \A d \in Deadlines : d > NextSweepTime
    /\ now' = NextSweepTime
    /\ UNCHANGED <<reqs, pendingDownloads, downloadProgress, lastFormatMessage,
                   receivedMediaTypes, rmtTimers, files, invs, nEvents>>
    /\ UNCHANGED <<connVars, webVars>>

NextSweep ==
    \/ AppListen
    \/ \E i \in inits : StartSucceeds(i)
    \/ DeliverEvent(PhotoMsg)
    \/ \E i \in invs : DiscardMessage(i)
    \/ \E i \in invs : StartPhotoDownload(i)
    \/ \E i \in invs : PhotoSaved(i)
    \/ \E u \in Urls, f \in Formats : BeginCall("download", u, f)
    \/ \E r \in DOMAIN reqs : RegisterCall(r)
    \/ \E r \in DOMAIN reqs : DeadlineTimer(r)
    \/ \E d \in rmtTimers : ClearReceivedMediaTypes(d)
    \/ (Deadlines # {} /\ SetMin(Deadlines) <= NextSweepTime) /\ AdvanceToDeadline
    \/ AdvanceToSweep
    \/ Sweep

SpecSweep == Init /\ [][NextSweep]_vars

(***************************************************************************)
(* SpecParse: parseYouTubeFormats applied to texts made of up to           *)
(* MaxSegments pieces: well-formed entries, entries with other spacing,    *)
(* case or units, bare labels and other words.                             *)
(***************************************************************************)
Segments ==
    { TSize("720p", 50), TSize("MP3", 8), TSize("720p", 9),
      <<TLabel("720p")>>,
      <<TLabel("1080p"), TColon, TSpace, TNum(1), TDot, TNum(2), TUnit("GB")>>,
      <<TLabel("360p"), TColon, TSpace, TNum(20), TDot, TNum(5), TUnit("MB")>>,
      <<TLabel("480p"), TSpace, TSpace, TColon, TNum(30), TUnit("MB")>>,
      <<TLabel("mp3"), TColon, TSpace, TNum(8), TUnit("mb")>>,
      <<TCam>>, <<TWord>> }

RECURSIVE Join(_)
Join(segs) == IF segs = <<>> THEN <<>> ELSE Head(segs) \o Join(Tail(segs))

Texts == {Join(segs) : segs \in UNION {[1..n -> Segments] : n \in 0..MaxSegments}}

InitParse ==
    /\ InitServer
    /\ parseIn \in Texts
    /\ parseOut = NotParsed
    /\ fileReq = NoFileRequest
    /\ fileResp = NotServed

ParseText ==
    /\ parseOut = NotParsed
    /\ parseOut' = [done |-> TRUE, formats |-> parseYouTubeFormats(parseIn)]
    /\ UNCHANGED <<corrVars, connVars, purgeTimers, polled, nSweeps, lastCaught,
                   parseIn, fileReq, fileResp, rateVars, botVars>>

NextParse == ParseText

SpecParse == InitParse /\ [][NextParse]_vars

(***************************************************************************)
(* SpecRange: GET /downloads/:filename for a file of a given size and a    *)
(* Range header "bytes=first-second" whose parts are digits or empty.      *)
(***************************************************************************)
FileSizes == {1, 3, 1000}
Offsets == {0, 1, 2, 100, 199, 999, 1000}

\* parseInt(part, 10) of a part that is digits; of an empty part it is NaN
IsNaN(part) == part = Empty
ParseInt(part) == part[1]

\* an off-by-one chunk size
ChunkSizeExclusive(start, end) == end - start

\* const chunksize = (end - start) + 1
ChunkSize(start, end) == (end - start) + 1

\* fs.createReadStream(filePath, {start, end}) piped to the response: the
\* number of bytes sent; the stream stops at the end of the file
StreamLength(size, start, end) ==
    IF start >= size THEN 0
    ELSE IF end >= size THEN size - start ELSE (end - start) + 1

\* the route: 404 without the file; with a Range header 206, Content-Range
\* and the chunk size as Content-Length; otherwise the whole file.
\* createReadStream throws if start is not a number or exceeds end, and the
\* framework then answers 500
ServeFile(req) ==
    IF ~req.exists THEN [status |-> 404]
    ELSE IF ~req.range.given
    THEN [status |-> 200, contentLength |-> req.size, acceptRanges |-> "bytes",
          body |-> req.size]
    ELSE IF IsNaN(req.range.first) THEN [status |-> 500]
    ELSE LET start == ParseInt(req.range.first)
             end == IF req.range.second # Empty
                    THEN ParseInt(req.range.second) ELSE req.size - 1
         IN  IF start > end THEN [status |-> 500]
             ELSE [status |-> 206, contentLength |-> ChunkSize(start, end),
                   contentRange |-> <<start, end, req.size>>,
                   acceptRanges |-> "bytes",
                   body |-> StreamLength(req.size, start, end)]

RangeHeaders ==
    LET Parts == {Digits(n) : n \in Offsets} \cup {Empty}
    IN  {NoRange} \cup [given : {TRUE}, first : Parts, second : Parts]

InitRange ==
    /\ InitServer
    /\ parseIn = <<>>
    /\ parseOut = NotParsed
    /\ fileReq \in [exists : BOOLEAN, size : FileSizes, range : RangeHeaders]
    /\ fileResp = NotServed

GetDownload ==
    /\ fileResp = NotServed
    /\ fileResp' = ServeFile(fileReq)
    /\ UNCHANGED <<corrVars, connVars, purgeTimers, polled, nSweeps, lastCaught,
                   parseIn, parseOut, fileReq, rateVars, botVars>>

NextRange == GetDownload

SpecRange == InitRange /\ [][NextRange]_vars

(***************************************************************************)
(* Properties.                                                             *)
(***************************************************************************)
Calls == DOMAIN reqs
FileComplete(fs, fileName) ==
    fileName \in DOMAIN fs /\ fs[fileName].status = "complete"

\* the deadline timer of call r runs in this step
TimerRuns(r) == ~reqs[r].fired /\ reqs'[r].fired

\* call r gets its result in this step
Settled(r) == reqs[r].ncalls = 0 /\ reqs'[r].ncalls = 1

\* C1: the resolve function of a call is called at most once, and a deadline
\* timer that runs after its call has been resolved finds no entry under the
\* call's requestId and changes nothing.
C1_ResolvedAtMostOnce ==
    [][\A r \in Calls :
          /\ reqs'[r].ncalls <= 1
          /\ (TimerRuns(r) /\ reqs[r].ncalls >= 1)
                => /\ ~PendingHas(pendingDownloads, reqs[r].key)
                   /\ pendingDownloads' = pendingDownloads
                   /\ downloadProgress' = downloadProgress]_vars

\* C2: every registered call is resolved exactly once, by a bot event or else
\* by its deadline timer: once its timer has run, its resolve function has
\* been called exactly once.
C2_ResolvedOnceByDeadline ==
    \A r \in Calls : reqs[r].fired => reqs[r].ncalls = 1

\* C3: a call that no bot event has resolved when its deadline timer runs is
\* resolved with null by the timer, and right after the timer has run
\* pendingDownloads does not contain the call's requestId.
C3_TimeoutResolvesNull ==
    [][\A r \in Calls :
          TimerRuns(r) =>
             /\ ~PendingHas(pendingDownloads', reqs[r].key)
             /\ reqs[r].ncalls = 0
                   => reqs'[r].ncalls = 1 /\ reqs'[r].value = NullResult]_vars

\* C4: a menu or payload event that gives waiting calls a result resolves
\* exactly one call, the first entry of pendingDownloads, and leaves the
\* other entries in place.
C4_EventResolvesExactlyOne ==
    [][(\E r \in Calls : Settled(r) /\ reqs'[r].value # NullResult)
          => /\ pendingDownloads # <<>>
             /\ pendingDownloads' = Tail(pendingDownloads)
             /\ \A r \in Calls : Settled(r) <=> r = pendingDownloads[1].owner]_vars

\* C5: POST /api/download and /api/youtube/download are resolved only with a
\* file descriptor or null, POST /api/youtube/formats only with a format list
\* or null; a 200 answer of POST /api/download carries videoUrl and fileName,
\* and its other answers are 408 and 503.
C5_ResultMatchesRequestClass ==
    \A r \in Calls :
       /\ reqs[r].kind \in {"download", "dlformat"}
             => reqs[r].value.type \in {"pending", "null", "video", "audio", "image"}
       /\ reqs[r].kind = "formats"
             => reqs[r].value.type \in {"pending", "null", "formats"}
       /\ reqs[r].kind = "download"
             => /\ reqs[r].resp.status \in {0, 200, 408, 503}
                /\ reqs[r].resp.status = 200
                      => /\ reqs[r].resp.videoUrl # Undefined
                         /\ reqs[r].resp.fileName # NoFile

\* C6: whenever a step resolves a call with a file descriptor, or marks a
\* ProgressRecord successful, the named file is completely written in the
\* downloads directory when the step ends.
C6_WriteBeforeResolve ==
    [][/\ \A r \in Calls :
             (Settled(r) /\ IsDescriptor(reqs'[r].value))
                => FileComplete(files', reqs'[r].value.fileName)
       /\ \A k \in DOMAIN downloadProgress :
             (~downloadProgress[k].success /\ downloadProgress'[k].success)
                => /\ FileComplete(files', downloadProgress'[k].fileName)
                   /\ downloadProgress'[k].videoUrl = Url(downloadProgress'[k].fileName)]_vars

\* a call and a ProgressRecord have been completed with the descriptor of a
\* file that is on disk
C6_Witness ==
    /\ \E r \in Calls :
          /\ IsDescriptor(reqs[r].value)
          /\ FileComplete(files, reqs[r].value.fileName)
    /\ \E k \in DOMAIN downloadProgress :
          /\ downloadProgress[k].success
          /\ FileComplete(files, downloadProgress[k].fileName)

\* C7: when the download or the write of a payload fails, every waiting call
\* is resolved with null and no file of that payload, complete or partial,
\* is left in the downloads directory.
C7_FailureCleansUp ==
    [][\A i \in invs :
          (PhotoFailed(i, TRUE) \/ PhotoFailed(i, FALSE) \/ DocFailed(i))
             => /\ pendingDownloads' = <<>>
                /\ \A r \in PendingOwners(pendingDownloads) :
                      reqs[r].ncalls = 0 => reqs'[r].value = NullResult
                /\ i.fileName \notin DOMAIN files']_vars

\* C8: when the bot sends an audio-only payload and a video payload, the
\* waiting download call is never resolved with the audio's descriptor.
C8_VideoWins ==
    \A r \in Calls :
       (/\ reqs[r].kind \in {"download", "dlformat"}
        /\ \E i \in invs : FromBot(i.msg) /\ i.msg.media = "doc" /\ IsVideo(i.msg))
          => reqs[r].value.type # "audio"

\* C9: no invocation of handleIncomingMessage starts while an earlier one is
\* still in progress.
C9_OneInvocationAtATime == Cardinality(invs) <= 1

\* C10: once an AUTH_KEY_DUPLICATED error has been handled, no reconnect
\* sequence calls initTelegram any more.
C10_HaltedAfterDuplicate ==
    [][dupSeen => \A i \in inits' \ inits : ~i.reconnect]_vars


\* the reconnect sequences in progress: timer callbacks of scheduleReconnect
\* that are disconnecting or waiting, or that await their initTelegram
ReconnectSequences ==
    Cardinality(rseq) + Cardinality({i \in inits : i.reconnect})

\* C11: at most one reconnect sequence (disconnect the old client, wait, run
\* initTelegram) is in progress at any time.
C11_OneReconnectSequence == ReconnectSequences <= 1


\* an HTTP call arrives in this step; NewestCall is its record afterwards
CallArrives == Len(reqs') = Len(reqs) + 1
NewestCall == reqs'[Len(reqs')]
NothingRegistered ==
    pendingDownloads' = pendingDownloads /\ downloadProgress' = downloadProgress

\* C12 as stated: a call to one of the three routes that arrives while
\* isConnected is false is answered 503 at once, without a message to the
\* bot and without a new entry in pendingDownloads or downloadProgress.
C12_DisconnectedAnswers503 ==
    [][(CallArrives /\ ~isConnected)
          => /\ NewestCall.pc = "done"
             /\ NewestCall.resp.status = 503
             /\ NothingRegistered]_vars

\* C12 amended: the body is validated before the connection is looked at, so
\* a call that arrives while isConnected is false is answered 503 if its body
\* has the required fields and 400 otherwise; in both cases the handler
\* returns at once, sends nothing and registers nothing.
C12_DisconnectedAnswers503Or400 ==
    [][(CallArrives /\ ~isConnected)
          => /\ NewestCall.pc = "done"
             /\ NewestCall.resp.status =
                   IF BodyOk(NewestCall.kind, NewestCall.url, NewestCall.format)
                   THEN 503 ELSE 400
             /\ NothingRegistered]_vars

\* every route has answered a well-formed call with 503 while disconnected
C12_Witness ==
    /\ ~isConnected
    /\ Len(reqs) = 2
    /\ reqs[1].kind = "dlformat" /\ reqs[1].url = "u" /\ reqs[1].format = "720p"
    /\ reqs[1].resp.status = 503
    /\ reqs[2].kind = "formats" /\ reqs[2].pc = "done" /\ reqs[2].resp.status = 503


\* invocation i returns in this step after handling a progress text of the
\* bot that carries a percentage
ProgressHandled(i) ==
    /\ i \in invs /\ i \notin invs' /\ i.pc = "getSender"
    /\ FromBot(i.msg) /\ IsProgress(i.msg) /\ HasPercent(i.msg.text)

\* C13: a progress text of the bot with the percentage N sets the progress
\* of every ProgressRecord that is not complete to N and leaves the complete
\* ProgressRecords, pendingDownloads and lastFormatMessage unchanged.
C13_ProgressBroadcast ==
    [][\A i \in invs :
          ProgressHandled(i) =>
             /\ DOMAIN downloadProgress' = DOMAIN downloadProgress
             /\ \A k \in DOMAIN downloadProgress :
                   IF downloadProgress[k].complete
                   THEN downloadProgress'[k] = downloadProgress[k]
                   ELSE downloadProgress'[k].progress = FirstPercent(i.msg.text)
             /\ pendingDownloads' = pendingDownloads
             /\ lastFormatMessage' = lastFormatMessage]_vars

\* a progress text has been applied while one record was complete and
\* another was not
C13_Witness ==
    \E k1, k2 \in DOMAIN downloadProgress :
       /\ downloadProgress[k1].complete
       /\ downloadProgress[k1].progress # FirstPercent(ProgressMsg.text)
       /\ ~downloadProgress[k2].complete
       /\ downloadProgress[k2].progress = FirstPercent(ProgressMsg.text)


\* C14: every ProgressRecord that becomes complete is removed from
\* downloadProgress (60 seconds after its completion): a complete record does
\* not stay for ever.
C14_CompleteRecordPurged ==
    \A k \in 0..MaxMsTicks :
       (k \in DOMAIN downloadProgress /\ downloadProgress[k].complete)
          ~> (k \notin DOMAIN downloadProgress)


\* C15: an event whose sender username is not exactly the bot's handle
\* without its leading @ changes nothing: its invocation never gets past the
\* sender filter, and neither its start nor its return changes
\* pendingDownloads, downloadProgress, lastFormatMessage, receivedMediaTypes,
\* the downloads directory or any call.
C15_OtherSendersIgnored ==
    [][\A i \in invs \cup invs' :
          i.msg.sender # Bot =>
             /\ i.pc = "getSender"
             /\ ((i \in invs) # (i \in invs'))
                   => UNCHANGED <<pendingDownloads, downloadProgress, lastFormatMessage,
                                  receivedMediaTypes, files, reqs, rmtTimers>>]_vars

\* a video of another account is being handled while a call is waiting
C15_Witness ==
    /\ Len(pendingDownloads) > 0
    /\ \E i \in invs : i.msg = StrangerMsg /\ IsVideo(i.msg)


\* the label l stands at p in the shape "l: <digits>MB" (white space around
\* the colon is optional, case is not significant) with the size sz
ShapedAt(text, p, l, sz) ==
    \E a, b \in 1..Len(text) :
       /\ p < a /\ a < b /\ b < Len(text)
       /\ text[p].k = "label" /\ FoldCase(text[p].l) = l
       /\ \A j \in (p + 1)..(a - 1) : text[j] = TSpace
       /\ text[a] = TColon
       /\ \A j \in (a + 1)..(b - 1) : text[j] = TSpace
       /\ text[b].k = "num" /\ text[b + 1].k = "unit"
       /\ FoldCase(text[b + 1].l) = "MB"
       /\ sz = <<text[b].n, text[b + 1].l>>

ShapedPositions(text, l) ==
    {p \in 1..Len(text) :
        \E b \in 1..(Len(text) - 1) : ShapedAt(text, p, l, <<text[b].n, text[b + 1].l>>)}

SevenLabels == {"1080p", "720p", "480p", "360p", "240p", "144p", "MP3"}

\* C16: parseYouTubeFormats returns one entry for each of the seven labels
\* that occurs in the text as "label: <digits>MB", with the size of its first
\* such occurrence, and no entry for any other label; "720p: 50MB" and
\* "MP3: 8MB" alone give exactly those two entries.
C16_ParseFormats ==
    LET out == parseOut.formats
    IN  parseOut.done =>
           /\ \A l \in SevenLabels :
                 Cardinality({i \in DOMAIN out : out[i].quality = l})
                    = IF ShapedPositions(parseIn, l) # {} THEN 1 ELSE 0
           /\ \A i \in DOMAIN out :
                 /\ out[i].quality \in SevenLabels
                 /\ ShapedPositions(parseIn, out[i].quality) # {}
                 /\ ShapedAt(parseIn, SetMin(ShapedPositions(parseIn, out[i].quality)),
                             out[i].quality, out[i].size)
           /\ parseIn = TSize("720p", 50) \o TSize("MP3", 8)
                 => out = <<[quality |-> "720p", size |-> <<50, "MB">>],
                            [quality |-> "MP3", size |-> <<8, "MB">>]>>

\* the text "720p: 50MB MP3: 8MB" has been parsed into its two entries
C16_Witness ==
    /\ parseIn = TSize("720p", 50) \o TSize("MP3", 8)
    /\ parseOut.done
    /\ parseOut.formats = <<[quality |-> "720p", size |-> <<50, "MB">>],
                            [quality |-> "MP3", size |-> <<8, "MB">>]>>

\* C17: for a file of size S and a Range header bytes=a-b with
\* 0 <= a <= b < S, GET /downloads/:filename answers 206 with Content-Range
\* "bytes a-b/S", Content-Length b-a+1 and that many bytes (100 for
\* bytes=100-199 of 1000 bytes); without a Range header it answers 200 with
\* Content-Length S.
C17_RangeResponse ==
    (fileResp # NotServed /\ fileReq.exists) =>
       /\ ~fileReq.range.given
            => /\ fileResp.status = 200
               /\ fileResp.contentLength = fileReq.size
               /\ fileResp.body = fileReq.size
       /\ \A a, b \in 0..(fileReq.size - 1) :
            (a <= b /\ fileReq.range = [given |-> TRUE, first |-> Digits(a),
                                        second |-> Digits(b)])
               => /\ fileResp.status = 206
                  /\ fileResp.contentRange = <<a, b, fileReq.size>>
                  /\ fileResp.contentLength = b - a + 1
                  /\ fileResp.body = b - a + 1
                  /\ (fileReq.size = 1000 /\ a = 100 /\ b = 199) => fileResp.body = 100

\* bytes=100-199 of a file of 1000 bytes has been served
C17_Witness ==
    /\ fileReq.exists /\ fileReq.size = 1000
    /\ fileReq.range = [given |-> TRUE, first |-> Digits(100), second |-> Digits(199)]
    /\ fileResp.status = 206
    /\ fileResp.contentLength = 100

\* C18: a run of the sweep deletes exactly the files whose age (now minus
\* modification time) exceeds one hour and leaves every younger file as it
\* is; nothing else removes a file, so a file survives every sweep until it
\* is older than one hour.
C18_SweepByAge ==
    [][/\ nSweeps' # nSweeps
          => \A f \in DOMAIN files :
                IF now - files[f].mtime > 60 * 60 * 1000
                THEN f \notin DOMAIN files'
                ELSE f \in DOMAIN files' /\ files'[f] = files[f]
       /\ \A f \in DOMAIN files :
             f \notin DOMAIN files'
                => nSweeps' # nSweeps /\ now - files[f].mtime > 60 * 60 * 1000]_vars

\* after two sweeps the file of an earlier call is gone and a file that is
\* exactly one hour old is still there
C18_Witness ==
    /\ nSweeps = 2
    /\ \E r \in Calls :
          IsDescriptor(reqs[r].value) /\ reqs[r].value.fileName \notin DOMAIN files
    /\ \E f \in DOMAIN files : now - files[f].mtime = 60 * 60 * 1000


\* C19: registering a request never overwrites the entry of another
\* unresolved request: every registered request that has not been resolved
\* or timed out still has its own entry of pendingDownloads, under its own
\* key, also when another request was registered at the same millisecond.
C19_DistinctEntries ==
    \A r \in Calls :
        reqs[r].registered /\ reqs[r].ncalls = 0
            => /\ \E i \in 1..Len(pendingDownloads) :
                      pendingDownloads[i] = [key |-> reqs[r].key, owner |-> r]
               /\ \A q \in Calls \ {r} :
                      reqs[q].registered /\ reqs[q].ncalls = 0
                          => reqs[q].key # reqs[r].key


\* C20: a reply of the bot cannot be lost by arriving early: when the
\* handler of bot events gets to classify the reply to the message of a
\* POST /api/download or /api/youtube/formats call that is still open, the
\* PendingRequest of that call has already been registered.
C20_ReplyFindsRequest ==
    [][\A i \in invs :
          AtSender(i) /\ i \notin invs' /\ i.re \in Calls
              => (reqs[i.re].pc # "done" => reqs[i.re].registered)]_vars


\* C21: once a ProgressRecord is complete, no later bot event, deadline
\* timer or handler step changes any of its fields as long as it is in
\* downloadProgress (a step that creates a new record under the same
\* identifier is not counted as a change of the old one).
C21_CompleteRecordFrozen ==
    [][\A k \in DOMAIN downloadProgress :
          /\ downloadProgress[k].complete
          /\ k \in DOMAIN downloadProgress'
          /\ ~\E r \in Calls : reqs[r].pc = "entity" /\ reqs'[r].pc # "entity"
          => downloadProgress'[k] = downloadProgress[k]]_vars


\* C22: every ProgressRecord created by POST /api/youtube/download
\* eventually has complete = true.
C22_RecordEventuallyComplete ==
    \A k \in 0..MaxMsTicks :
       (k \in DOMAIN downloadProgress)
          ~> (k \in DOMAIN downloadProgress /\ downloadProgress[k].complete)


\* C23: a POST /api/youtube/download call that is rejected with 400 because
\* no format menu is stored leaves no trace: the step that rejects it adds
\* nothing to downloadProgress and nothing to pendingDownloads.
C23_RejectedCallLeavesNoTrace ==
    [][\A r \in Calls :
          /\ reqs[r].kind = "dlformat" /\ reqs[r].pc = "entity"
          /\ reqs'[r].pc = "done" /\ reqs'[r].resp.status = 400
          => /\ downloadProgress' = downloadProgress
             /\ pendingDownloads' = pendingDownloads]_vars


\* C24: an audio-only document of the bot that is handled while a
\* payload-class request is waiting and no video or image has been recorded
\* is downloaded (the handler goes on to the transfer), not dropped.
C24_AudioOnlyIsDownloaded ==
    [][\A i \in invs :
          /\ AtSender(i) /\ i.msg = AudioMsg /\ i \notin invs'
          /\ \E e \in 1..Len(pendingDownloads) :
                reqs[pendingDownloads[e].owner].kind \in {"download", "dlformat"}
          /\ \A k \in DOMAIN receivedMediaTypes :
                receivedMediaTypes[k] \notin {"video", "image"}
          => \E j \in invs' : j.id = i.id /\ j.pc = "doc"]_vars


\* C25: a message of the bot that carries a video or image payload (or an
\* audio payload that passes the priority rule) and is handled while a
\* request is waiting goes on to the transfer of its payload, whatever its
\* caption says: the text classification does not drop it.
C25_CaptionDoesNotDropPayload ==
    [][\A i \in invs :
          /\ AtSender(i) /\ FromBot(i.msg) /\ i \notin invs'
          /\ Len(pendingDownloads) > 0
          /\ \/ i.msg.media = "photo"
             \/ i.msg.media = "doc" /\ KnownKind(i.msg) /\ ~AudioSkipped(i.msg)
          => \E j \in invs' : j.id = i.id /\ j.pc \in {"photo", "doc"}]_vars


\* C26: an audio-only payload that answers a call which has already been
\* satisfied by a video or an image is discarded, however late it comes: the
\* handler ends at the media checks, and no request, ProgressRecord or file
\* changes.
C26_LateAudioDiscarded ==
    [][\A i \in invs :
          /\ AtSender(i) /\ i.msg = AudioMsg /\ i \notin invs'
          /\ i.re \in Calls
          /\ reqs[i.re].value.type \in {"video", "image"}
          => /\ invs' = invs \ {i}
             /\ UNCHANGED <<reqs, pendingDownloads, downloadProgress, files>>]_vars


C28_ProbeFailureLikeClientError ==
    [][probes' < probes /\ nFaults' > nFaults
          => /\ ~isConnected'
             /\ IF ~dupSeen /\ dupSeen'
                THEN reconnectTimeout' = reconnectTimeout
                ELSE isReconnecting \/ reconnectTimeout' = "armed"]_vars


\* C29: once a duplicate-session error has been raised, isConnected is false
\* in every later state.
C29_DisconnectedAfterDuplicate == dupSeen => ~isConnected


\* C30: at every moment at most one chat client is live (started, not
\* disconnected, with the message handlers attached).
C30_OneLiveClient == Cardinality(LiveClients) <= 1


\* C31: the descriptor of every accepted document reports one kind
\* consistently: its type, its mediaType and the prefix of its file name
\* agree, and a document that passes the video test is reported as video.
C31_OneKindPerDocument ==
    \A r \in Calls :
        IsDescriptor(reqs[r].value)
            => /\ reqs[r].value.type = reqs[r].value.mediaType
               /\ reqs[r].value.fileName[1] = reqs[r].value.type

\* C32: a document without a video, audio or image attribute whose MIME type
\* fails the primary checks but contains 'mp4' or 'webm' is taken for a
\* video: handled while a request is waiting, it goes on to the transfer.
C32_InferredVideoIsDownloaded ==
    [][\A i \in invs :
          /\ AtSender(i) /\ FromBot(i.msg) /\ i \notin invs'
          /\ i.msg.media = "doc" /\ ~KnownKind(i.msg)
          /\ Includes(i.msg.mime, "mp4") \/ Includes(i.msg.mime, "webm")
          /\ Len(pendingDownloads) > 0
          => \E j \in invs' : j.id = i.id /\ j.pc = "doc"]_vars


\* C33: when the click on the stored menu raises an error, the call of
\* POST /api/youtube/download is not answered with a success and a requestId.
C33_FailedClickIsReported ==
    \A r \in Calls : reqs[r].clickError => reqs[r].resp.status # 200


C35_LatestMenuStored ==
    [][/\ lastFormatMessage' # lastFormatMessage
          => \E i \in invs :
                /\ AtSender(i) /\ FromBot(i.msg) /\ IsMenu(i.msg) /\ i \notin invs'
                /\ lastFormatMessage' = [id |-> i.id, buttons |-> i.msg.buttons]
       /\ lastFormatMessage'.id >= lastFormatMessage.id]_vars


\* C37: every answer 206 of GET /downloads/:filename announces a range that
\* lies inside the file (0 <= start <= end < size) and a Content-Length
\* between 1 and the size of the file.
C37_RangeInsideFile ==
    fileResp.status = 206 =>
        /\ 0 <= fileResp.contentRange[1]
        /\ fileResp.contentRange[1] <= fileResp.contentRange[2]
        /\ fileResp.contentRange[2] < fileResp.contentRange[3]
        /\ fileResp.contentLength >= 1
        /\ fileResp.contentLength <= fileReq.size


\* C39: at most one liveness-probe interval timer is active at any time,
\* however many times initTelegram has connected.
C39_OneKeepAliveTimer == keepAlives <= 1


(***************************************************************************)
(* SpecRate: rateLimitMiddleware in front of /api/, for requests of two    *)
(* client addresses, with time passing between the requests.               *)
(***************************************************************************)
RATE_LIMIT_WINDOW == 60000
MAX_REQUESTS_PER_WINDOW == 10
MaxElapses == 2
ClientIps == {"ip1", "ip2"}
Delays == {2, 59999, 60000}

\* Math.ceil(ms / 1000) of a non-negative number of milliseconds
CeilSeconds(ms) == (ms + 999) \div 1000

\* the passes of an address that are less than one window old at time t
Recent(times, t) == SelectSeq(times, LAMBDA x : t - x < RATE_LIMIT_WINDOW)

PassedOf(ip) == IF ip \in DOMAIN passed THEN passed[ip] ELSE <<>>

\* return next(): the request goes on to its handler
PassOn(ip) ==
    /\ passed' = (ip :> Append(Recent(PassedOf(ip), now), now)) @@ passed
    /\ rateResp' = [ip |-> ip, status |-> 0, retryAfter |-> 0, next |-> TRUE]

\* rateLimitMiddleware(req, res, next) for a request of clientIp
rateLimitMiddleware(clientIp) ==
    /\ IF clientIp \notin DOMAIN rateLimitMap
       THEN /\ rateLimitMap' = (clientIp :> [count |-> 1,
                                    resetTime |-> now + RATE_LIMIT_WINDOW])
                               @@ rateLimitMap
            /\ PassOn(clientIp)
       ELSE LET rateLimitData == rateLimitMap[clientIp]
            IN  IF now > rateLimitData.resetTime
                THEN /\ rateLimitMap' = [rateLimitMap EXCEPT ![clientIp] =
                            [count |-> 1, resetTime |-> now + RATE_LIMIT_WINDOW]]
                     /\ PassOn(clientIp)
                ELSE IF rateLimitData.count >= MAX_REQUESTS_PER_WINDOW
                THEN /\ rateResp' = [ip |-> clientIp, status |-> 429,
                            retryAfter |-> CeilSeconds(rateLimitData.resetTime - now),
                            next |-> FALSE]
                     /\ UNCHANGED <<rateLimitMap, passed>>
                ELSE /\ rateLimitMap' = [rateLimitMap EXCEPT
                            ![clientIp].count = rateLimitData.count + 1]
                     /\ PassOn(clientIp)
    /\ UNCHANGED <<corrVars, connVars, purgeTimers, polled, nSweeps, lastCaught,
                   pureVars, nElapses, botVars>>

\* time passes between two requests
Elapse(d) ==
    /\ nElapses < MaxElapses
    /\ nElapses' = nElapses + 1
    /\ now' = now + d
    /\ UNCHANGED <<reqs, pendingDownloads, downloadProgress, lastFormatMessage,
                   receivedMediaTypes, rmtTimers, files, invs, nEvents>>
    /\ UNCHANGED <<connVars, purgeTimers, polled, nSweeps, lastCaught, pureVars,
                   rateLimitMap, passed, rateResp, botVars>>

NextRate ==
    \/ \E ip \in ClientIps : rateLimitMiddleware(ip)
    \/ \E d \in Delays : Elapse(d)

SpecRate == Init /\ [][NextRate]_vars

\* C38: for each client IP at most MAX_REQUESTS_PER_WINDOW requests are
\* passed on within any 60 seconds, and a request that is answered 429 gets
\* a positive retryAfter and is not passed on to a handler.
C38_RateLimitHolds ==
    /\ \A ip \in DOMAIN passed :
            Len(Recent(passed[ip], now)) <= MAX_REQUESTS_PER_WINDOW
    /\ rateResp.status = 429 => rateResp.retryAfter > 0 /\ ~rateResp.next


(***************************************************************************)
(* SpecThreeBot: the version of the server that talks to a second bot for  *)
(* TeraBox links.  POST /api/download waits in pendingDownloads, POST      *)
(* /api/terabox waits in teraboxPendingDownloads, and one handler receives *)
(* the messages of both bots.                                              *)
(***************************************************************************)
TERABOX_TIMEOUT == 60000
MaxBotReqs == 2
MaxBotEvents == 2
teraboxBotUsername == <<"@", "TeraBoxFastDLBot">>
TeraBoxBot == <<"TeraBoxFastDLBot">>

\* a message of the three-bot version; url: its reply markup has a button
\* with a url
BotMsg(sender, text, media, url) ==
    [sender |-> sender, text |-> text, media |-> media, url |-> url]

BotMessages ==
    {BotMsg(b, t, m, u) :
        b \in {Bot, TeraBoxBot, <<"someone">>},
        t \in {<<>>, <<TCam>> \o TSize("720p", 50)},
        m \in {"none", "photo", "doc"},
        u \in BOOLEAN}

\* the promise of one HTTP request and the bot its url was sent to
BotCall(to, t, timeout) ==
    [to |-> to, key |-> t, deadline |-> t + timeout, fired |-> FALSE,
     ncalls |-> 0, value |-> Pending, by |-> <<>>]

\* resolve(v) on the promises of owners while handling a message of who
Settle(rs, owners, v, who) ==
    [r \in DOMAIN rs |->
        IF r \notin owners THEN rs[r]
        ELSE IF rs[r].ncalls = 0
        THEN [rs[r] EXCEPT !.ncalls = 1, !.value = v, !.by = who]
        ELSE [rs[r] EXCEPT !.ncalls = @ + 1]]

\* for (let [key, resolve] of map.entries()) { resolve(v); delete; break; }
FirstOwner(pd) == IF Len(pd) > 0 THEN {pd[1].owner} ELSE {}
DropFirst(pd) == IF Len(pd) > 0 THEN Tail(pd) ELSE pd

ThreeBotWaiting == Len(pendingDownloads) > 0 \/ Len(teraboxPendingDownloads) > 0

\* app.post('/api/download'): the url goes to the main bot
PostDownload ==
    /\ client # 0 /\ isConnected
    /\ Len(botReqs) < MaxBotReqs
    /\ botReqs' = Append(botReqs, BotCall(Bot, now, DOWNLOAD_TIMEOUT))
    /\ pendingDownloads' = PendingSet(pendingDownloads, now, Len(botReqs) + 1)
    /\ UNCHANGED <<now, reqs, downloadProgress, lastFormatMessage,
                   receivedMediaTypes, rmtTimers, files, invs, nEvents>>
    /\ UNCHANGED <<connVars, purgeTimers, polled, nSweeps, lastCaught, pureVars,
                   rateVars, teraboxPendingDownloads>>

\* app.post('/api/terabox'): the url goes to the TeraBox bot
PostTerabox ==
    /\ client # 0 /\ isConnected
    /\ Len(botReqs) < MaxBotReqs
    /\ botReqs' = Append(botReqs, BotCall(TeraBoxBot, now, TERABOX_TIMEOUT))
    /\ teraboxPendingDownloads' =
            PendingSet(teraboxPendingDownloads, now, Len(botReqs) + 1)
    /\ UNCHANGED <<corrVars, connVars, purgeTimers, polled, nSweeps, lastCaught,
                   pureVars, rateVars>>

\* the setTimeout of a request: if (map.has(requestId)) { delete; resolve(null) }
BotDeadline(r) ==
    /\ ~botReqs[r].fired /\ now >= botReqs[r].deadline
    /\ LET mine == botReqs[r].to = Bot
           pd == IF mine THEN pendingDownloads ELSE teraboxPendingDownloads
           has == PendingHas(pd, botReqs[r].key)
           rs == [botReqs EXCEPT ![r].fired = TRUE]
       IN  /\ botReqs' = IF has THEN Settle(rs, {r}, NullResult, <<"timer">>) ELSE rs
           /\ pendingDownloads' =
                IF mine THEN PendingDelete(pendingDownloads, botReqs[r].key)
                ELSE pendingDownloads
           /\ teraboxPendingDownloads' =
                IF mine THEN teraboxPendingDownloads
                ELSE PendingDelete(teraboxPendingDownloads, botReqs[r].key)
    /\ UNCHANGED <<now, reqs, downloadProgress, lastFormatMessage,
                   receivedMediaTypes, rmtTimers, files, invs, nEvents>>
    /\ UNCHANGED <<connVars, purgeTimers, polled, nSweeps, lastCaught, pureVars,
                   rateVars>>

\* time passes until the next deadline of a request
BotAdvance ==
    /\ \E r \in DOMAIN botReqs : ~botReqs[r].fired
    /\ \A r \in DOMAIN botReqs : ~botReqs[r].fired => botReqs[r].deadline > now
    /\ now' = SetMin({botReqs[r].deadline : r \in {q \in DOMAIN botReqs : ~botReqs[q].fired}})
    /\ UNCHANGED <<reqs, pendingDownloads, downloadProgress, lastFormatMessage,
                   receivedMediaTypes, rmtTimers, files, invs, nEvents>>
    /\ UNCHANGED <<connVars, webVars>>

\* handleIncomingMessage of the three-bot version for message m; ok: the
\* transfer of its media succeeds
handleThreeBotMessage(m, ok) ==
    /\ client # 0 /\ isConnected
    /\ nEvents < MaxBotEvents
    /\ nEvents' = nEvents + 1
    /\ LET both == PendingOwners(pendingDownloads)
                       \cup PendingOwners(teraboxPendingDownloads)
           info == [type |-> IF m.media = "photo" THEN "image" ELSE "video"]
       IN
       IF m.sender \notin {StripAt(botUsername), StripAt(teraboxBotUsername)}
       THEN UNCHANGED <<pendingDownloads, lastFormatMessage, botVars>>
       ELSE IF m.sender = StripAt(teraboxBotUsername) /\ m.media # "doc" /\ m.url
       THEN /\ botReqs' = Settle(botReqs, FirstOwner(teraboxPendingDownloads),
                                 [type |-> "webapp"], m.sender)
            /\ teraboxPendingDownloads' = DropFirst(teraboxPendingDownloads)
            /\ UNCHANGED <<pendingDownloads, lastFormatMessage>>
       ELSE IF HasText(m) /\ IsFormatList(m.text)
       THEN /\ lastFormatMessage' = [id |-> nEvents + 1, buttons |-> {}]
            /\ botReqs' = Settle(botReqs, FirstOwner(pendingDownloads),
                                 [type |-> "formats"], m.sender)
            /\ pendingDownloads' = DropFirst(pendingDownloads)
            /\ UNCHANGED teraboxPendingDownloads
       ELSE IF ~ThreeBotWaiting \/ m.media = "none"
       THEN UNCHANGED <<pendingDownloads, lastFormatMessage, botVars>>
       ELSE /\ botReqs' = Settle(botReqs, both,
                                 IF ok THEN info ELSE NullResult, m.sender)
            /\ pendingDownloads' = <<>>
            /\ teraboxPendingDownloads' = <<>>
            /\ UNCHANGED lastFormatMessage
    /\ UNCHANGED <<now, reqs, downloadProgress, receivedMediaTypes, rmtTimers,
                   files, invs>>
    /\ UNCHANGED <<connVars, purgeTimers, polled, nSweeps, lastCaught, pureVars,
                   rateVars>>

NextThreeBot ==
    \/ AppListen
    \/ \E i \in inits : StartSucceeds(i)
    \/ PostDownload
    \/ PostTerabox
    \/ \E r \in DOMAIN botReqs : BotDeadline(r)
    \/ \E m \in BotMessages, ok \in BOOLEAN : handleThreeBotMessage(m, ok)
    \/ TickMs
    \/ BotAdvance

SpecThreeBot == Init /\ [][NextThreeBot]_vars

\* C36: in the three-bot version a request is resolved or failed by a
\* message only if the message was sent by the bot the request was
\* addressed to (or by its own deadline timer).
C36_OnlyOwnBotResolves ==
    \A r \in DOMAIN botReqs :
        botReqs[r].ncalls > 0 => botReqs[r].by \in {botReqs[r].to, <<"timer">>}


====
